---- MODULE Spec2Model ----
(***************************************************************************)
(* Birthday SMS scheduler: the occurrence calculator, the occurrence       *)
(* scheduler, the file-backed store and the dispatch loop of               *)
(* src/src/scheduler.ts, src/unnamed/part_000 (store.ts), src/src/server.ts*)
(* and src/src/sms-service.ts.                                             *)
(*                                                                         *)
(* Instants are whole hours since 1970-01-01T00:00Z (JavaScript's epoch,   *)
(* in hours instead of milliseconds).  The process's time zone is a fixed  *)
(* offset tz in hours (no daylight-saving changes): local wall clock =     *)
(* instant + tz.                                                           *)
(***************************************************************************)
EXTENDS Integers, Sequences, FiniteSets, TLC

VARIABLES
    tz,            \* the process's time zone offset, in hours east of UTC
    tick,          \* index of the wall clock in the clock's instants
    contacts,      \* store: AppData.contacts
    messages,      \* store: AppData.messages
    nextContactId, \* the contact ids handed out so far (uuidv4 is fresh)
    activeClients, \* sms-service: Map sessionId -> bundle, in insertion order
    pendingAdds,   \* POST /api/contacts handlers suspended on createSmsBinding
    cycles,        \* the dispatch cycles (processDueMessages invocations)
    sendNow,       \* POST /api/messages/send-now handlers suspended on the gateway
    timers,        \* pending setTimeout(5000) delivery timers, per message id
    gatewayCalls,  \* how often sendBirthdaySms was invoked, per message id
    results,       \* the SmsResult sendBirthdaySms last returned, per message id
    calc,          \* the occurrence calculator applied to one input
    schedulerErrors, \* the instants at which the cron callback caught an error
    sessionNotifyServiceSids, \* sms-service: Map session key -> Notify service id
    notifyServiceSid, \* store: AppData.notifyServiceSid
    pendingEnsures, \* ensureNotifyService calls suspended on createService
    serviceCalls,  \* how often createService was invoked
    firstResolved, \* the service id first resolved, per session key
    ensured        \* the last call of ensureNotifyService that returned

\* The state of the Notify service resolution.
notifyVars == <<sessionNotifyServiceSids, notifyServiceSid, pendingEnsures,
                serviceCalls, firstResolved, ensured>>

vars == <<tz, tick, contacts, messages, nextContactId, activeClients,
          pendingAdds, cycles, sendNow, timers, gatewayCalls, results, calc,
          schedulerErrors, notifyVars>>

----------------------------------------------------------------------------
(* Bounds of the model *)

MaxContacts == 2      \* contacts ever created
MaxMessages == 2      \* occurrence records the store may hold
MaxCycles   == 2      \* dispatch cycles that may be in flight together
MaxTick     == 1      \* the wall clock's last instant
MaxRefYears == 2      \* calendar years the calculator's reference instants span
MaxPhonePrefix == 3   \* characters of a phone input before its run of digits
MaxPhonePad == 16     \* digits of a phone input's run
MaxNameLen == 3       \* characters of a name given to interpolateName
MaxErrors == 1        \* errors raised inside dispatch cycles
MaxServiceCalls == 2  \* calls of the provider's createService

----------------------------------------------------------------------------
(* Optional fields of a record: undefined, or a value *)

Undefined == <<>>
Some(v) == <<v>>

----------------------------------------------------------------------------
(* The platform's calendar (JavaScript Date) *)

EpochYear == 1970

IsLeap(y) == (y % 4 = 0 /\ y % 100 # 0) \/ y % 400 = 0

DaysInMonth(y, m) ==
    CASE m \in {4, 6, 9, 11} -> 30
      [] m = 2 -> IF IsLeap(y) THEN 29 ELSE 28
      [] OTHER -> 31

\* Days of year y before its month m.
DaysBeforeMonth(y, m) ==
    <<0, 31, 59, 90, 120, 151, 181, 212, 243, 273, 304, 334>>[m]
    + (IF m > 2 /\ IsLeap(y) THEN 1 ELSE 0)

LeapsBefore(y) == ((y - 1) \div 4) - ((y - 1) \div 100) + ((y - 1) \div 400)

\* Days from the epoch to January 1st of year y.
YearStartDay(y) == 365 * (y - EpochYear) + LeapsBefore(y) - LeapsBefore(EpochYear)

\* Date.UTC(y, monthIndex, day, h): a day past the month's end rolls over
\* into the following month(s).
UTCInstant(y, monthIndex, day, h) ==
    (YearStartDay(y) + DaysBeforeMonth(y, monthIndex + 1) + (day - 1)) * 24 + h

\* new Date(y, monthIndex, day, h, 0, 0): the same, read in local time.
MakeDate(y, monthIndex, day, h, zone) == UTCInstant(y, monthIndex, day, h) - zone

\* The calendar year day number dn (days since the epoch) falls in.
YearOfDay(dn) ==
    CHOOSE yy \in (EpochYear + (dn \div 366)) .. (EpochYear + (dn \div 366) + 2) :
        YearStartDay(yy) <= dn /\ dn < YearStartDay(yy + 1)

\* The month the doy-th day (from 0) of year y falls in.
MonthOfYearDay(y, doy) ==
    CHOOSE m \in 1 .. 12 :
        DaysBeforeMonth(y, m) <= doy /\ doy < DaysBeforeMonth(y, m) + DaysInMonth(y, m)

CivilFields(y, mo, doy, h) ==
    [y |-> y, mo |-> mo, d |-> doy - DaysBeforeMonth(y, mo) + 1, h |-> h]

CivilInYear(y, doy, h) == CivilFields(y, MonthOfYearDay(y, doy), doy, h)

CivilOnDay(dn, y, h) == CivilInYear(y, dn - YearStartDay(y), h)

\* The UTC calendar fields of an instant.
CivilOf(t) == CivilOnDay(t \div 24, YearOfDay(t \div 24), t % 24)

\* Date.prototype.toISOString: the instant's UTC fields.
ToISOString(t) == CivilOf(t)

\* new Date(isoString): the instant of the UTC fields.
ParseISO(iso) == UTCInstant(iso.y, iso.mo - 1, iso.d, iso.h)

\* The local calendar fields of an instant.
LocalOf(t, zone) == CivilOf(t + zone)

\* Date.prototype.getFullYear
GetFullYear(t, zone) == YearOfDay((t + zone) \div 24)

----------------------------------------------------------------------------
(* Contact.birthday: the string "MM-DD", as its characters' codes *)

Dash == 45
Digit(n) == 48 + n

\* `${String(month).padStart(2, '0')}-${String(day).padStart(2, '0')}`
FormatBirthday(month, day) ==
    <<Digit(month \div 10), Digit(month % 10), Dash,
      Digit(day \div 10), Digit(day % 10)>>

RECURSIVE ToNumber(_)
\* Number(s) of a string of decimal digits
ToNumber(s) ==
    IF s = <<>> THEN 0
    ELSE 10 * ToNumber(SubSeq(s, 1, Len(s) - 1)) + (s[Len(s)] - 48)

\* The index of the first '-'
DashIndex(s) == CHOOSE k \in 1 .. Len(s) : s[k] = Dash /\ \A j \in 1 .. (k - 1) : s[j] # Dash

SplitAt(s, i) == <<ToNumber(SubSeq(s, 1, i - 1)), ToNumber(SubSeq(s, i + 1, Len(s)))>>

\* birthdayMMDD.split('-').map(Number)
SplitBirthday(s) == SplitAt(s, DashIndex(s))

----------------------------------------------------------------------------
(* Phone numbers.  A string is a sequence of one-character strings. *)

DigitChars == {"0", "1", "2", "3", "4", "5", "6", "7", "8", "9"}

IsDigitChar(c) == c \in DigitChars

\* String.prototype.trim
RECURSIVE TrimStart(_)
TrimStart(s) == IF s # <<>> /\ Head(s) = " " THEN TrimStart(Tail(s)) ELSE s

RECURSIVE TrimEnd(_)
TrimEnd(s) ==
    IF s # <<>> /\ s[Len(s)] = " " THEN TrimEnd(SubSeq(s, 1, Len(s) - 1)) ELSE s

Trim(s) == TrimEnd(TrimStart(s))

\* String.prototype.startsWith
StartsWith(s, p) == Len(s) >= Len(p) /\ SubSeq(s, 1, Len(p)) = p

\* String.prototype.substring(from, to): the characters from..to-1 (0-based),
\* to the string's end when it is shorter
Substring(s, from, to) == SubSeq(s, from + 1, IF to < Len(s) THEN to ELSE Len(s))

\* The table of country calling codes: key, value
COUNTRY_CODES ==
    <<
       <<<<"1">>, "US/CA">>,
       <<<<"4", "4">>, "UK">>,
       <<<<"9", "1">>, "IN">>,
       <<<<"6", "1">>, "AU">>,
       <<<<"3", "3">>, "FR">>,
       <<<<"4", "9">>, "DE">>,
       <<<<"8", "1">>, "JP">>,
       <<<<"8", "6">>, "CN">>,
       <<<<"5", "5">>, "BR">>,
       <<<<"5", "2">>, "MX">>,
       <<<<"3", "4">>, "ES">>,
       <<<<"3", "9">>, "IT">>,
       <<<<"8", "2">>, "KR">>,
       <<<<"3", "1">>, "NL">>,
       <<<<"4", "6">>, "SE">>,
       <<<<"4", "7">>, "NO">>,
       <<<<"4", "5">>, "DK">>,
       <<<<"3", "5", "8">>, "FI">>,
       <<<<"4", "8">>, "PL">>,
       <<<<"4", "1">>, "CH">>,
       <<<<"4", "3">>, "AT">>,
       <<<<"3", "2">>, "BE">>,
       <<<<"3", "5", "1">>, "PT">>,
       <<<<"3", "5", "3">>, "IE">>,
       <<<<"6", "4">>, "NZ">>,
       <<<<"6", "5">>, "SG">>,
       <<<<"6", "0">>, "MY">>,
       <<<<"6", "6">>, "TH">>,
       <<<<"6", "3">>, "PH">>,
       <<<<"6", "2">>, "ID">>,
       <<<<"8", "4">>, "VN">>,
       <<<<"9", "0">>, "TR">>,
       <<<<"9", "6", "6">>, "SA">>,
       <<<<"9", "7", "1">>, "AE">>,
       <<<<"9", "7", "2">>, "IL">>,
       <<<<"2", "0">>, "EG">>,
       <<<<"2", "7">>, "ZA">>,
       <<<<"2", "3", "4">>, "NG">>,
       <<<<"2", "5", "4">>, "KE">>,
       <<<<"9", "2">>, "PK">>,
       <<<<"8", "8", "0">>, "BD">>
    >>

\* COUNTRY_CODES[prefix], undefined when the table has no such key
CountryOf(prefix) ==
    IF \E i \in 1 .. Len(COUNTRY_CODES) : COUNTRY_CODES[i][1] = prefix
    THEN Some(COUNTRY_CODES[CHOOSE i \in 1 .. Len(COUNTRY_CODES) :
                                COUNTRY_CODES[i][1] = prefix][2])
    ELSE Undefined

\* detectCountry: the 3-digit prefix first, then the 2-digit, then the 1-digit
DetectCountry(digits) ==
    IF CountryOf(Substring(digits, 0, 3)) # Undefined
    THEN CountryOf(Substring(digits, 0, 3))
    ELSE IF CountryOf(Substring(digits, 0, 2)) # Undefined
         THEN CountryOf(Substring(digits, 0, 2))
         ELSE CountryOf(Substring(digits, 0, 1))

PhoneValid(formatted, countryHint) ==
    [valid |-> TRUE, formatted |-> Some(formatted), countryHint |-> countryHint,
     error |-> Undefined]

PhoneInvalid(error) ==
    [valid |-> FALSE, formatted |-> Undefined, countryHint |-> Undefined,
     error |-> Some(error)]

\* The number given with '+' or after the prefix 00: 7 to 15 digits
FullNumber(digits, error) ==
    IF Len(digits) < 7 \/ Len(digits) > 15
    THEN PhoneInvalid(error \o ToString(Len(digits)))
    ELSE PhoneValid(<<"+">> \o digits, DetectCountry(digits))

\* A number of 7 to 15 digits without '+' or 00: valid if its country is found
InternationalNumber(digits, countryHint) ==
    IF countryHint # Undefined
    THEN PhoneValid(<<"+">> \o digits, countryHint)
    ELSE PhoneInvalid("Could not determine country code.")

\* validateAndFormatPhone from its test of the cleaned string on
FormatCleaned(cleaned, hasPlus) ==
    IF Len(cleaned) = 0
    THEN PhoneInvalid("Phone number is empty")
    ELSE IF hasPlus
    THEN FullNumber(cleaned, "Phone number with country code should be 7-15 digits, got ")
    ELSE IF StartsWith(cleaned, <<"0", "0">>)
    THEN FullNumber(Substring(cleaned, 2, Len(cleaned)),
                    "Phone number should be 7-15 digits after country code, got ")
    ELSE IF Len(cleaned) = 10
    THEN PhoneValid(<<"+", "1">> \o cleaned, Some("US/CA (assumed)"))
    ELSE IF Len(cleaned) = 11 /\ StartsWith(cleaned, <<"1">>)
    THEN PhoneValid(<<"+">> \o cleaned, Some("US/CA"))
    ELSE IF Len(cleaned) >= 7 /\ Len(cleaned) <= 15
    THEN InternationalNumber(cleaned, DetectCountry(cleaned))
    ELSE PhoneInvalid("Invalid phone number length (" \o ToString(Len(cleaned)) \o " digits).")

\* validateAndFormatPhone: the input trimmed, its digits kept
ValidateAndFormatPhone(input) ==
    FormatCleaned(SelectSeq(Trim(input), IsDigitChar), StartsWith(Trim(input), <<"+">>))

\* isE164: /^\+[1-9]\d{6,14}$/
IsE164(phone) ==
    /\ Len(phone) >= 8
    /\ Len(phone) <= 16
    /\ phone[1] = "+"
    /\ phone[2] \in DigitChars \ {"0"}
    /\ \A i \in 3 .. Len(phone) : phone[i] \in DigitChars

----------------------------------------------------------------------------
(* Message text: interpolateName *)

\* The placeholder the pattern /\{\{name\}\}/g matches
Placeholder == <<"{", "{", "n", "a", "m", "e", "}", "}">>

\* name.replace(/[<>]/g, '').trim()
IsNotAngle(c) == c \notin {"<", ">"}

SafeName(name) == Trim(SelectSeq(name, IsNotAngle))

\* What String.prototype.replace inserts for a replacement string: $$ is a
\* '$', $& the matched text, $` the text before the match and $' the text
\* after it; any other character, and a '$' before any other, stands for itself
RECURSIVE GetSubstitution(_, _, _, _, _)
GetSubstitution(replacement, i, matched, before, after) ==
    IF i > Len(replacement)
    THEN <<>>
    ELSE IF replacement[i] = "$" /\ i < Len(replacement) /\ replacement[i + 1] = "$"
    THEN <<"$">> \o GetSubstitution(replacement, i + 2, matched, before, after)
    ELSE IF replacement[i] = "$" /\ i < Len(replacement) /\ replacement[i + 1] = "&"
    THEN matched \o GetSubstitution(replacement, i + 2, matched, before, after)
    ELSE IF replacement[i] = "$" /\ i < Len(replacement) /\ replacement[i + 1] = "`"
    THEN before \o GetSubstitution(replacement, i + 2, matched, before, after)
    ELSE IF replacement[i] = "$" /\ i < Len(replacement) /\ replacement[i + 1] = "'"
    THEN after \o GetSubstitution(replacement, i + 2, matched, before, after)
    ELSE <<replacement[i]>> \o GetSubstitution(replacement, i + 1, matched, before, after)

\* Whether the placeholder starts at position pos of the template
PlaceholderAt(template, pos) ==
    /\ pos + Len(Placeholder) - 1 <= Len(template)
    /\ SubSeq(template, pos, pos + Len(Placeholder) - 1) = Placeholder

\* template.replace(/\{\{name\}\}/g, safeName) from position pos on: the
\* matches are taken from left to right and do not overlap
RECURSIVE ReplaceAll(_, _, _)
ReplaceAll(template, pos, safeName) ==
    IF pos > Len(template)
    THEN <<>>
    ELSE IF PlaceholderAt(template, pos)
    THEN GetSubstitution(safeName, 1, Placeholder, SubSeq(template, 1, pos - 1),
                         SubSeq(template, pos + Len(Placeholder), Len(template)))
         \o ReplaceAll(template, pos + Len(Placeholder), safeName)
    ELSE <<template[pos]>> \o ReplaceAll(template, pos + 1, safeName)

InterpolateName(template, name) == ReplaceAll(template, 1, SafeName(name))

----------------------------------------------------------------------------
(* Occurrence calculator *)

FireHour == 9

\* A calculator that keeps this year's birthday when it is exactly now.
NextBirthdayFrom_KeepEqual(month, day, thisYear, ref, zone) ==
    IF MakeDate(thisYear, month - 1, day, FireHour, zone) < ref
    THEN MakeDate(thisYear + 1, month - 1, day, FireHour, zone)
    ELSE MakeDate(thisYear, month - 1, day, FireHour, zone)

\* A calculator that clamps the day to the month's last day.
NextBirthdayFrom_Clamp(month, day, thisYear, ref, zone) ==
    IF MakeDate(thisYear, month - 1,
                IF day > DaysInMonth(thisYear, month) THEN DaysInMonth(thisYear, month) ELSE day,
                FireHour, zone) <= ref
    THEN MakeDate(thisYear + 1, month - 1,
                IF day > DaysInMonth(thisYear + 1, month) THEN DaysInMonth(thisYear + 1, month) ELSE day,
                FireHour, zone)
    ELSE MakeDate(thisYear, month - 1,
                IF day > DaysInMonth(thisYear, month) THEN DaysInMonth(thisYear, month) ELSE day,
                FireHour, zone)

\* getNextBirthdayDate from thisYearBday on (scheduler.ts 36-42)
NextBirthdayFrom(month, day, thisYear, ref, zone) ==
    IF MakeDate(thisYear, month - 1, day, FireHour, zone) <= ref
    THEN MakeDate(thisYear + 1, month - 1, day, FireHour, zone)
    ELSE MakeDate(thisYear, month - 1, day, FireHour, zone)

NextBirthdayOf(md, ref, zone) ==
    NextBirthdayFrom(md[1], md[2], GetFullYear(ref, zone), ref, zone)

GetNextBirthdayDate(birthdayMMDD, ref, zone) ==
    NextBirthdayOf(SplitBirthday(birthdayMMDD), ref, zone)

----------------------------------------------------------------------------
(* Template renderer *)

TemplateChoices == {1}      \* the indexes Math.random() may pick in the model

\* generateBirthdayMessage: the chosen template with the name interpolated
GenerateBirthdayMessage(name, k) == [template |-> k, name |-> name]

----------------------------------------------------------------------------
(* Store (file-backed: every operation loads, changes and saves the whole
   document synchronously) *)

ContactIds == 1 .. MaxContacts
MessageIds == 1 .. (MaxMessages + 1)

\* contacts.find((c) => c.id === contactId)
HasContact(cs, contactId) == \E i \in 1 .. Len(cs) : cs[i].id = contactId
FindContact(cs, contactId) ==
    cs[CHOOSE i \in 1 .. Len(cs) :
           cs[i].id = contactId /\ \A j \in 1 .. (i - 1) : cs[j].id # contactId]

\* findIndex((x) => x.id === id), for an id some element holds
IndexOfId(xs, id) ==
    CHOOSE i \in 1 .. Len(xs) : xs[i].id = id /\ \A j \in 1 .. (i - 1) : xs[j].id # id

AddContact(cs, contact) == Append(cs, contact)

AddMessage(ms, message) == Append(ms, message)

\* { ...m, ...updates }
Merge(m, updates) ==
    [f \in DOMAIN m |-> IF f \in DOMAIN updates THEN updates[f] ELSE m[f]]

\* An update that stores the updates as a new record when no message holds the id.
UpdateMessage_Upsert(ms, id, updates) ==
    IF \E i \in 1 .. Len(ms) : ms[i].id = id
    THEN [ms EXCEPT ![IndexOfId(ms, id)] = Merge(@, updates)]
    ELSE Append(ms, updates)

\* updateMessage: the first message holding the id, merged with the updates;
\* nothing when no message holds it
UpdateMessage(ms, id, updates) ==
    IF \E i \in 1 .. Len(ms) : ms[i].id = id
    THEN [ms EXCEPT ![IndexOfId(ms, id)] = Merge(@, updates)]
    ELSE ms

\* data.contacts.splice(idx, 1)
RemoveAt(cs, idx) == SubSeq(cs, 1, idx - 1) \o SubSeq(cs, idx + 1, Len(cs))

\* A cascade that cancels the contact's messages whatever their status.
CancelScheduledOf_AnyStatus(ms, id) ==
    [i \in 1 .. Len(ms) |->
        IF ms[i].contactId = id
        THEN [ms[i] EXCEPT !.status = "cancelled"]
        ELSE ms[i]]

\* removeContact's cascade (part_000 107-112)
CancelScheduledOf(ms, id) ==
    [i \in 1 .. Len(ms) |->
        IF ms[i].contactId = id /\ ms[i].status = "scheduled"
        THEN [ms[i] EXCEPT !.status = "cancelled"]
        ELSE ms[i]]

\* A removal that leaves the contact's messages as they are.
RemoveContact_NoCascade(cs, ms, id) ==
    IF ~HasContact(cs, id)
    THEN [removed |-> FALSE, contacts |-> cs, messages |-> ms]
    ELSE [removed  |-> TRUE,
          contacts |-> RemoveAt(cs, IndexOfId(cs, id)),
          messages |-> ms]

\* removeContact (part_000 101-115)
RemoveContact(cs, ms, id) ==
    IF ~HasContact(cs, id)
    THEN [removed |-> FALSE, contacts |-> cs, messages |-> ms]
    ELSE [removed  |-> TRUE,
          contacts |-> RemoveAt(cs, IndexOfId(cs, id)),
          messages |-> CancelScheduledOf(ms, id)]

----------------------------------------------------------------------------
(* Occurrence scheduler *)

\* uuidv4(): an id no stored message holds (messages are never removed)
NewMessageId(ms) == Len(ms) + 1

NewMessage(ms, contact, body, scheduledFor, status, nowT, year) ==
    [id              |-> NewMessageId(ms),
     contactId       |-> contact.id,
     contactName     |-> contact.name,
     phone           |-> contact.phone,
     messageBody     |-> body,
     scheduledFor    |-> ToISOString(scheduledFor),
     status          |-> status,
     notificationSid |-> Undefined,
     errorMessage    |-> Undefined,
     sentAt          |-> Undefined,
     deliveredAt     |-> Undefined,
     createdAt       |-> ToISOString(nowT),
     year            |-> year]

\* A dedup test that never matches.
IsExisting_Never(m, contactId, year) == FALSE

\* The dedup test of messages.find (scheduler.ts 55-60)
IsExisting(m, contactId, year) ==
    m.contactId = contactId /\ m.year = year /\ m.status = "scheduled"

FirstExisting(ms, contactId, year) ==
    ms[CHOOSE i \in 1 .. Len(ms) :
           IsExisting(ms[i], contactId, year)
           /\ \A j \in 1 .. (i - 1) : ~IsExisting(ms[j], contactId, year)]

Created(ms, message) == [result |-> Some(message), messages |-> AddMessage(ms, message)]

\* A scheduler that creates the occurrence without looking for an existing one.
ScheduleForYear_NoDedup(ms, contact, nextBirthday, year, nowT, rnd) ==
    Created(ms, NewMessage(ms, contact,
                    GenerateBirthdayMessage(contact.name, rnd[Len(ms) + 1]),
                    nextBirthday, "scheduled", nowT, year))

\* scheduleMessagesForContact from the dedup on (scheduler.ts 55-77).
\* rnd: the template Math.random() picks for a message created at a position.
ScheduleForYear(ms, contact, nextBirthday, year, nowT, rnd) ==
    IF \E i \in 1 .. Len(ms) : IsExisting(ms[i], contact.id, year)
    THEN [result |-> Some(FirstExisting(ms, contact.id, year)), messages |-> ms]
    ELSE Created(ms, NewMessage(ms, contact,
                        GenerateBirthdayMessage(contact.name, rnd[Len(ms) + 1]),
                        nextBirthday, "scheduled", nowT, year))

\* A scheduler that takes the year of today for the year of the occurrence.
ScheduleAt_YearOfNow(ms, contact, nextBirthday, nowT, zone, rnd) ==
    ScheduleForYear(ms, contact, nextBirthday, GetFullYear(nowT, zone), nowT, rnd)

\* scheduleMessagesForContact from the year on (scheduler.ts 53-77)
ScheduleAt(ms, contact, nextBirthday, nowT, zone, rnd) ==
    ScheduleForYear(ms, contact, nextBirthday, GetFullYear(nextBirthday, zone), nowT, rnd)

\* A scheduler whose dedup counts an occurrence of any status.
ScheduleMessagesForContact_DedupAnyStatus(cs, ms, contactId, nowT, zone, rnd) ==
    IF ~HasContact(cs, contactId)
       \/ \E i \in 1 .. Len(ms) :
              /\ ms[i].contactId = contactId
              /\ ms[i].year = GetFullYear(GetNextBirthdayDate(
                                  FindContact(cs, contactId).birthday, nowT, zone), zone)
    THEN [result |-> Undefined, messages |-> ms]
    ELSE ScheduleAt(ms, FindContact(cs, contactId),
                    GetNextBirthdayDate(FindContact(cs, contactId).birthday, nowT, zone),
                    nowT, zone, rnd)

\* The result and the store's messages after scheduleMessagesForContact.
ScheduleMessagesForContact(cs, ms, contactId, nowT, zone, rnd) ==
    IF ~HasContact(cs, contactId)
    THEN [result |-> Undefined, messages |-> ms]
    ELSE ScheduleAt(ms, FindContact(cs, contactId),
                    GetNextBirthdayDate(FindContact(cs, contactId).birthday, nowT, zone),
                    nowT, zone, rnd)

\* A bulk operation that returns only the occurrences it created.
PushResult_OnlyCreated(acc, r) ==
    [scheduled |-> IF Len(r.messages) = Len(acc.messages) THEN acc.scheduled
                   ELSE Append(acc.scheduled, r.result[1]),
     messages  |-> r.messages]

\* scheduled.push(msg) when msg is not null
PushResult(acc, r) ==
    [scheduled |-> IF r.result = Undefined THEN acc.scheduled
                   ELSE Append(acc.scheduled, r.result[1]),
     messages  |-> r.messages]

RECURSIVE ScheduleFrom(_, _, _, _, _, _)
\* The loop of scheduleAllContacts from contact i on.
ScheduleFrom(cs, i, acc, nowT, zone, rnd) ==
    IF i > Len(cs) THEN acc
    ELSE ScheduleFrom(cs, i + 1,
             PushResult(acc, ScheduleMessagesForContact(cs, acc.messages, cs[i].id,
                                                        nowT, zone, rnd)),
             nowT, zone, rnd)

ScheduleAllContacts(cs, ms, nowT, zone, rnd) ==
    ScheduleFrom(cs, 1, [scheduled |-> <<>>, messages |-> ms], nowT, zone, rnd)

----------------------------------------------------------------------------
(* Gateway: sendBirthdaySms *)

Sessions == {"s1"}
SessionIds == {"s1", "s2"}
Accounts == {"AC1", "AC2"}
NoBundle == Undefined       \* getFirstActiveClient() returned undefined

\* createTwilioClientBundle(creds) of a login that succeeded: the credentials
\* carry the account and the Notify service id that the login resolved.
Bundle(account, serviceSid) == [accountSid |-> account, notifyServiceSid |-> serviceSid]

\* activeClients.has(sessionId)
HasSession(clients, sessionId) ==
    \E i \in 1 .. Len(clients) : clients[i].sessionId = sessionId

\* A registration that moves a session that is already registered to the end.
SetSessionClient_MoveToEnd(clients, sessionId, bundle) ==
    Append(SelectSeq(clients, LAMBDA e : e.sessionId # sessionId),
           [sessionId |-> sessionId, bundle |-> bundle])

\* activeClients.set(sessionId, bundle): a Map keeps the position of a key it
\* already holds and appends a new key
SetSessionClient(clients, sessionId, bundle) ==
    IF HasSession(clients, sessionId)
    THEN [i \in 1 .. Len(clients) |->
             IF clients[i].sessionId = sessionId
             THEN [sessionId |-> sessionId, bundle |-> bundle]
             ELSE clients[i]]
    ELSE Append(clients, [sessionId |-> sessionId, bundle |-> bundle])

\* activeClients.delete(sessionId)
RemoveSessionClient(clients, sessionId) ==
    SelectSeq(clients, LAMBDA e : e.sessionId # sessionId)

\* What notificationApi.createNotification may do: resolve with a result that
\* has a sid or has none, or throw an ApiError (status code and body) or
\* another Error (message).
ProviderOutcomes ==
    { [kind |-> "result",   statusCode |-> 201, text |-> "NT1"],
      [kind |-> "resultNoSid", statusCode |-> 201, text |-> ""],
      [kind |-> "apiError", statusCode |-> 400, text |-> "invalid destination"],
      [kind |-> "apiError", statusCode |-> 500, text |-> "invalid destination"],
      [kind |-> "error",    statusCode |-> 0,   text |-> "invalid destination"] }

SmsSuccess(sid) == [success |-> TRUE,  notificationSid |-> Some(sid), error |-> Undefined]
SmsFailure(err) == [success |-> FALSE, notificationSid |-> Undefined, error |-> Some(err)]

\* A gateway that fails without a bundle.
SimulatedResult_Unavailable(nowT) == SmsFailure("Notify service not available")

\* The SmsResult of sendBirthdaySms without a bundle: a simulated success.
SimulatedResult(nowT) == SmsSuccess("SIM_" \o ToString(nowT))

\* The SmsResult of sendBirthdaySms with a bundle, from what the provider did.
\* (A registered bundle's credentials carry the notify service id, so the
\* service id always resolves.)
SmsResultOf(outcome) ==
    CASE outcome.kind = "result" -> SmsSuccess(outcome.text)
      [] outcome.kind = "resultNoSid" ->
            [success |-> TRUE, notificationSid |-> Undefined, error |-> Undefined]
      [] outcome.kind = "apiError" /\ outcome.statusCode \in {400, 403} ->
            SmsFailure("SMS failed (" \o ToString(outcome.statusCode)
                \o "): This may be a trial account restriction. Ensure the recipient number is verified in your account. "
                \o outcome.text)
      [] outcome.kind = "apiError" ->
            SmsFailure("SMS API error (" \o ToString(outcome.statusCode) \o "): "
                \o outcome.text)
      [] OTHER -> SmsFailure(outcome.text)

\* The keys ensureNotifyService is called with: req.sessionID, and
\* 'scheduler' by processDueMessages
NotifyKeys == SessionIds \cup {"scheduler"}

\* The ids of the services the provider creates, in the order of the calls.
ServiceSids == <<"IS1", "IS2", "IS3", "IS4">>

\* No call of ensureNotifyService has returned.
NoneEnsured == [key |-> "", sid |-> Undefined, created |-> FALSE, later |-> FALSE]

\* A fresh process and a fresh data file
NotifyInit ==
    /\ sessionNotifyServiceSids = [key \in NotifyKeys |-> Undefined]
    /\ notifyServiceSid = Undefined
    /\ pendingEnsures = {}
    /\ serviceCalls = 0
    /\ firstResolved = [key \in NotifyKeys |-> Undefined]
    /\ ensured = NoneEnsured

\* activeClients.values().next()
GetFirstActiveClient(clients) ==
    IF clients = <<>> THEN NoBundle ELSE Some(clients[1].bundle)

----------------------------------------------------------------------------
(* Dispatch loop: processDueMessages.  A cycle runs without interruption up
   to its next await of sendBirthdaySms.  With a bundle the cycle is then
   "awaiting" the provider; with no bundle the send is simulated and its
   promise already settled, the cycle is "settled" and goes on as a
   microtask, before any other handler, timer or cron callback runs. *)

\* No invocation in flight in this slot.
IdleCycle ==
    [pc |-> "idle", snap |-> <<>>, pos |-> 0, now |-> 0, bundle |-> NoBundle,
     sentOk |-> {}]

\* An invocation at its start: the snapshot of getMessages(), new Date() and
\* getFirstActiveClient()
StartedCycle(ms, nowT, bundle) ==
    [pc |-> "running", snap |-> ms, pos |-> 1, now |-> nowT, bundle |-> bundle,
     sentOk |-> {}]

\* A loop that passes over the entries that are not due only.
Skips_AnyStatus(msg, now) == ~(ParseISO(msg.scheduledFor) <= now)

\* The loop passes over a snapshot entry that is not 'scheduled' or not due.
Skips(msg, now) == msg.status # "scheduled" \/ ~(ParseISO(msg.scheduledFor) <= now)

\* A loop that does not mark the message before the send.
Claim_Skip(ms, msg) == ms

\* updateMessage(msg.id, { status: 'sending' })
Claim(ms, msg) == UpdateMessage(ms, msg.id, [status |-> "sending"])

\* The claim, and sendBirthdaySms invoked for the message.
Claimed(st, msg) ==
    [st EXCEPT !.messages = Claim(@, msg), !.gatewayCalls[msg.id] = @ + 1]

\* A success branch without the re-arm.
Rearm_Skip(cs, ms, contactId, nowT, zone, rnd) == ms

\* The success branch's re-arm (scheduler.ts 131-135)
Rearm(cs, ms, contactId, nowT, zone, rnd) ==
    IF HasContact(cs, contactId)
    THEN ScheduleMessagesForContact(cs, ms, contactId, nowT, zone, rnd).messages
    ELSE ms

\* A failure branch that drops the error text.
RecordFailure_NoText(ms, id, result) ==
    UpdateMessage(ms, id, [status |-> "failed"])

\* The failure branch (scheduler.ts 136-141)
RecordFailure(ms, id, result) ==
    UpdateMessage(ms, id, [status |-> "failed", errorMessage |-> result.error])

\* A success branch that also stamps the record's creation with the send's
\* instant.
RecordSuccess_Restamp(ms, id, result, nowT) ==
    UpdateMessage(ms, id, [status          |-> "sent",
                           notificationSid |-> result.notificationSid,
                           sentAt          |-> Some(ToISOString(nowT)),
                           createdAt       |-> ToISOString(nowT)])

\* The success branch's update (scheduler.ts 118-122)
RecordSuccess(ms, id, result, nowT) ==
    UpdateMessage(ms, id, [status          |-> "sent",
                           notificationSid |-> result.notificationSid,
                           sentAt          |-> Some(ToISOString(nowT))])

\* The loop's body after the await, on the store, the timers and the
\* gateway's call counts.
Recorded(st, msg, result, cs, nowT, zone, rnd) ==
    IF result.success
    THEN [st EXCEPT
            !.messages = Rearm(cs, RecordSuccess(@, msg.id, result, nowT),
                               msg.contactId, nowT, zone, rnd),
            !.timers[msg.id] = @ + 1,
            !.results[msg.id] = Some(result)]
    ELSE [st EXCEPT !.messages = RecordFailure(@, msg.id, result),
                    !.results[msg.id] = Some(result)]

\* The cycle past the message it awaited; sentOk collects the messages the
\* cycle has recorded a success for.
Advanced(cyc, result) ==
    [cyc EXCEPT !.pc = "running", !.pos = @ + 1,
                !.sentOk = IF result.success THEN @ \cup {cyc.snap[cyc.pos].id} ELSE @]

RECURSIVE RunLoop(_, _, _, _, _, _)

\* The loop from the cycle's position on, up to its next suspension or its end.
RunLoop(st, cyc, cs, nowT, zone, rnd) ==
    IF cyc.pos > Len(cyc.snap)
    THEN [st |-> st, cyc |-> IdleCycle]
    ELSE IF Skips(cyc.snap[cyc.pos], cyc.now)
    THEN RunLoop(st, [cyc EXCEPT !.pos = @ + 1], cs, nowT, zone, rnd)
    ELSE [st  |-> Claimed(st, cyc.snap[cyc.pos]),
          cyc |-> [cyc EXCEPT !.pc = IF cyc.bundle = NoBundle THEN "settled"
                                     ELSE "awaiting"]]

\* The loop's body after the await of sendBirthdaySms, then the loop again.
AfterSend(st, cyc, result, cs, nowT, zone, rnd) ==
    RunLoop(Recorded(st, cyc.snap[cyc.pos], result, cs, nowT, zone, rnd),
            Advanced(cyc, result), cs, nowT, zone, rnd)

----------------------------------------------------------------------------
(* The wall clock and the inputs of the model *)

\* The local wall-clock times the clock steps through: 08:00 and 09:00 on
\* March 15th of successive years.
ClockTime(i) == [y |-> 2024 + (i \div 2), mo |-> 3, d |-> 15, h |-> 8 + (i % 2)]

ClockInstant(i, zone) ==
    MakeDate(ClockTime(i).y, ClockTime(i).mo - 1, ClockTime(i).d, ClockTime(i).h, zone)

\* new Date()
Now == ClockInstant(tick, tz)

TimeZones == {-5, 10}
Names     == {"Ann"}
\* Phone inputs: "+1 555 555 0001" and "5555550001", which are one number, and
\* "+15555550002"
Phones ==
    { <<"+", "1", " ", "5", "5", "5", " ", "5", "5", "5", " ", "0", "0", "0", "1">>,
      <<"5", "5", "5", "5", "5", "5", "0", "0", "0", "1">>,
      <<"+", "1", "5", "5", "5", "5", "5", "5", "0", "0", "0", "2">> }
Birthdays == {<<3, 15>>, <<1, 1>>}

\* One step creates at most one message per contact or per due message.
Rnds == [1 .. (2 * MaxMessages + MaxContacts) -> TemplateChoices]

CalcOff == [phase |-> "off", month |-> 0, day |-> 0, ref |-> 0, result |-> 0]

Store ==
    [messages |-> messages, timers |-> timers, gatewayCalls |-> gatewayCalls,
     results |-> results]

\* authGuard: a request of a logged-in session, whose bundle is registered
ApiAllowed == activeClients # <<>>

\* No continuation of an await on a settled promise is queued: the event loop
\* takes its next task.
NoMicrotask == \A k \in 1 .. MaxCycles : cycles[k].pc # "settled"

\* The store keeps the messages, within the model's bound.
SaveMessages(ms) ==
    /\ Len(ms) <= MaxMessages
    /\ messages' = ms

----------------------------------------------------------------------------
(* Initial state: a fresh data file; startScheduler's scheduleAllContacts
   finds no contact *)

Init ==
    /\ tz \in TimeZones
    /\ tick = 0
    /\ contacts = <<>>
    /\ messages = <<>>
    /\ nextContactId = 1
    /\ activeClients = <<>>
    /\ pendingAdds = {}
    /\ cycles = [k \in 1 .. MaxCycles |-> IdleCycle]
    /\ sendNow = {}
    /\ timers = [i \in MessageIds |-> 0]
    /\ gatewayCalls = [i \in MessageIds |-> 0]
    /\ results = [i \in MessageIds |-> Undefined]
    /\ schedulerErrors = <<>>
    /\ NotifyInit
    /\ calc = CalcOff

----------------------------------------------------------------------------
(* Sessions *)

\* POST /api/auth/login with the Notify service id at hand (the store holds
\* the id of the service created before): setSessionClient(sessionId, bundle)
Login(s, account) ==
    /\ NoMicrotask
    /\ activeClients' = SetSessionClient(activeClients, s, Bundle(account, "IS1"))
    /\ UNCHANGED <<tz, tick, contacts, messages, nextContactId, pendingAdds,
                   cycles, sendNow, timers, gatewayCalls, results,
                   calc, schedulerErrors, notifyVars>>

\* POST /api/auth/logout: removeSessionClient(sessionId)
Logout(s) ==
    /\ NoMicrotask
    /\ HasSession(activeClients, s)
    /\ activeClients' = RemoveSessionClient(activeClients, s)
    /\ UNCHANGED <<tz, tick, contacts, messages, nextContactId, pendingAdds,
                   cycles, sendNow, timers, gatewayCalls, results,
                   calc, schedulerErrors, notifyVars>>

----------------------------------------------------------------------------
(* Contacts *)

\* A duplicate test that finds no contact.
IsDuplicatePhone_Never(cs, formatted) == FALSE

\* getContacts().find((c) => c.phone === phoneResult.formatted)
IsDuplicatePhone(cs, formatted) ==
    \E i \in 1 .. Len(cs) : cs[i].phone = formatted

\* The contact the add handler builds
NewContact(id, name, formatted, md, nowT) ==
    [id        |-> id,
     name      |-> name,
     phone     |-> formatted,
     birthday  |-> FormatBirthday(md[1], md[2]),
     createdAt |-> ToISOString(nowT)]

\* The add handler up to addContact, for a well-formed name and birthday: the
\* response's status code and the contacts it leaves
AddContactRequest(cs, id, name, phoneResult, md, nowT) ==
    IF ~phoneResult.valid
    THEN [code |-> 400, contacts |-> cs]
    ELSE IF IsDuplicatePhone(cs, phoneResult.formatted[1])
         THEN [code |-> 409, contacts |-> cs]
         ELSE [code |-> 201,
               contacts |-> AddContact(cs, NewContact(id, name, phoneResult.formatted[1],
                                                      md, nowT))]

\* POST /api/contacts up to its await of createSmsBinding
AddContactBegin(name, phone, md) ==
    /\ NoMicrotask
    /\ ApiAllowed
    /\ nextContactId <= MaxContacts
    /\ AddContactRequest(contacts, nextContactId, name, ValidateAndFormatPhone(phone),
                         md, Now).code = 201
    /\ contacts' = AddContactRequest(contacts, nextContactId, name,
                                     ValidateAndFormatPhone(phone), md, Now).contacts
    /\ nextContactId' = nextContactId + 1
    /\ pendingAdds' = pendingAdds \cup {nextContactId}
    /\ UNCHANGED <<tz, tick, messages, activeClients, cycles, sendNow, timers,
                   gatewayCalls, results,
                   calc, schedulerErrors, notifyVars>>

\* POST /api/contacts after the await: scheduleMessagesForContact(contact.id)
AddContactFinish(id, rnd) ==
    /\ NoMicrotask
    /\ id \in pendingAdds
    /\ SaveMessages(ScheduleMessagesForContact(contacts, messages, id, Now, tz, rnd).messages)
    /\ pendingAdds' = pendingAdds \ {id}
    /\ UNCHANGED <<tz, tick, contacts, nextContactId, activeClients, cycles,
                   sendNow, timers, gatewayCalls, results,
                   calc, schedulerErrors, notifyVars>>

\* DELETE /api/contacts/:id
DeleteContact(id) ==
    /\ NoMicrotask
    /\ ApiAllowed
    /\ RemoveContact(contacts, messages, id).removed
    /\ contacts' = RemoveContact(contacts, messages, id).contacts
    /\ messages' = RemoveContact(contacts, messages, id).messages
    /\ UNCHANGED <<tz, tick, nextContactId, activeClients, pendingAdds, cycles,
                   sendNow, timers, gatewayCalls, results,
                   calc, schedulerErrors, notifyVars>>

----------------------------------------------------------------------------
(* Messages *)

\* POST /api/messages/schedule-all
ScheduleAll(rnd) ==
    /\ NoMicrotask
    /\ ApiAllowed
    /\ SaveMessages(ScheduleAllContacts(contacts, messages, Now, tz, rnd).messages)
    /\ UNCHANGED <<tz, tick, contacts, nextContactId, activeClients, pendingAdds,
                   cycles, sendNow, timers, gatewayCalls, results,
                   calc, schedulerErrors, notifyVars>>

\* A cancel handler that cancels the message whatever its status.
CancelRequest_AnyStatus(ms, id) ==
    IF ~\E i \in 1 .. Len(ms) : ms[i].id = id
    THEN [code |-> 404, messages |-> ms]
    ELSE [code |-> 200, messages |-> UpdateMessage(ms, id, [status |-> "cancelled"])]

\* The cancel handler: the response's status code and the store it leaves.
CancelRequest(ms, id) ==
    IF ~\E i \in 1 .. Len(ms) : ms[i].id = id
    THEN [code |-> 404, messages |-> ms]
    ELSE IF ms[IndexOfId(ms, id)].status # "scheduled"
         THEN [code |-> 400, messages |-> ms]
         ELSE [code |-> 200, messages |-> UpdateMessage(ms, id, [status |-> "cancelled"])]

\* POST /api/messages/:id/cancel
Cancel(id) ==
    /\ NoMicrotask
    /\ ApiAllowed
    /\ messages' = CancelRequest(messages, id).messages
    /\ UNCHANGED <<tz, tick, contacts, nextContactId, activeClients, pendingAdds,
                   cycles, sendNow, timers, gatewayCalls, results,
                   calc, schedulerErrors, notifyVars>>

\* The record send-now creates: status 'sending', scheduled for now
SendNowRecord(ms, contact, nowT, zone, rnd) ==
    NewMessage(ms, contact, GenerateBirthdayMessage(contact.name, rnd[Len(ms) + 1]),
               nowT, "sending", nowT, GetFullYear(nowT, zone))

\* POST /api/messages/send-now up to its await of sendBirthdaySms
SendNowBegin(contactId, rnd) ==
    /\ NoMicrotask
    /\ ApiAllowed
    /\ HasContact(contacts, contactId)
    /\ Len(messages) < MaxMessages
    /\ messages' = AddMessage(messages,
                      SendNowRecord(messages, FindContact(contacts, contactId), Now, tz, rnd))
    /\ sendNow' = sendNow \cup {NewMessageId(messages)}
    /\ gatewayCalls' = [gatewayCalls EXCEPT ![NewMessageId(messages)] = @ + 1]
    /\ UNCHANGED <<tz, tick, contacts, nextContactId, activeClients, pendingAdds,
                   cycles, timers, results,
                   calc, schedulerErrors, notifyVars>>

\* A send-now whose success also cancels the contact's 'scheduled'
\* occurrences.
SendNowRecorded_Consume(id, result) ==
    /\ results' = [results EXCEPT ![id] = Some(result)]
    /\ IF result.success
       THEN /\ messages' = CancelScheduledOf(RecordSuccess(messages, id, result, Now),
                                             messages[id].contactId)
            /\ timers' = [timers EXCEPT ![id] = @ + 1]
       ELSE /\ messages' = RecordFailure(messages, id, result)
            /\ timers' = timers

\* send-now's branches on the SmsResult (server.ts 364-387)
SendNowRecorded(id, result) ==
    /\ results' = [results EXCEPT ![id] = Some(result)]
    /\ IF result.success
       THEN /\ messages' = RecordSuccess(messages, id, result, Now)
            /\ timers' = [timers EXCEPT ![id] = @ + 1]
       ELSE /\ messages' = RecordFailure(messages, id, result)
            /\ timers' = timers

\* POST /api/messages/send-now after the await
SendNowFinish(id, outcome) ==
    /\ NoMicrotask
    /\ id \in sendNow
    /\ SendNowRecorded(id, SmsResultOf(outcome))
    /\ sendNow' = sendNow \ {id}
    /\ UNCHANGED <<tz, tick, contacts, nextContactId, activeClients, pendingAdds,
                   cycles, gatewayCalls, calc, schedulerErrors, notifyVars>>

\* A timer callback that updates nothing.
TimerFire_Forget(id) ==
    /\ NoMicrotask
    /\ timers[id] > 0
    /\ timers' = [timers EXCEPT ![id] = @ - 1]
    /\ UNCHANGED <<tz, tick, contacts, messages, nextContactId, activeClients,
                   pendingAdds, cycles, sendNow, gatewayCalls, results,
                   calc, schedulerErrors, notifyVars>>

\* The setTimeout(..., 5000) callback of a successful send
TimerFire(id) ==
    /\ NoMicrotask
    /\ timers[id] > 0
    /\ messages' = UpdateMessage(messages, id,
                      [status |-> "delivered", deliveredAt |-> Some(ToISOString(Now))])
    /\ timers' = [timers EXCEPT ![id] = @ - 1]
    /\ UNCHANGED <<tz, tick, contacts, nextContactId, activeClients, pendingAdds,
                   cycles, sendNow, gatewayCalls, results,
                   calc, schedulerErrors, notifyVars>>

----------------------------------------------------------------------------
(* Dispatch cycles *)

\* The store and the cycle's slot after a stretch r of the loop.
CycleRan(k, r) ==
    /\ SaveMessages(r.st.messages)
    /\ timers' = r.st.timers
    /\ gatewayCalls' = r.st.gatewayCalls
    /\ results' = r.st.results
    /\ cycles' = [cycles EXCEPT ![k] = r.cyc]

\* The cron callback: processDueMessages up to its first await (or its end)
CycleStart(k, rnd) ==
    /\ NoMicrotask
    /\ cycles[k].pc = "idle"
    /\ \A j \in 1 .. (k - 1) : cycles[j].pc # "idle"
    /\ CycleRan(k, RunLoop(Store,
                           StartedCycle(messages, Now, GetFirstActiveClient(activeClients)),
                           contacts, Now, tz, rnd))
    /\ UNCHANGED <<tz, tick, contacts, nextContactId, activeClients, pendingAdds,
                   sendNow, calc, schedulerErrors, notifyVars>>

\* The provider answers: processDueMessages from its await to the next one
CycleResume(k, outcome, rnd) ==
    /\ NoMicrotask
    /\ cycles[k].pc = "awaiting"
    /\ CycleRan(k, AfterSend(Store, cycles[k], SmsResultOf(outcome), contacts, Now, tz, rnd))
    /\ UNCHANGED <<tz, tick, contacts, nextContactId, activeClients, pendingAdds,
                   sendNow, calc, schedulerErrors, notifyVars>>

\* The simulated send's promise was settled: processDueMessages from its
\* await to the next one
CycleContinue(k, rnd) ==
    /\ cycles[k].pc = "settled"
    /\ CycleRan(k, AfterSend(Store, cycles[k], SimulatedResult(Now), contacts, Now, tz, rnd))
    /\ UNCHANGED <<tz, tick, contacts, nextContactId, activeClients, pendingAdds,
                   sendNow, calc, schedulerErrors, notifyVars>>

----------------------------------------------------------------------------
(* Time.  The clock's step is an hour or more, while the cron trigger fires
   every minute, a provider call ends within its 30 s timeout and a delivery
   timer within 5 s: when the clock steps, no handler is suspended, no timer
   is pending and a cycle has claimed every due occurrence. *)

Quiescent ==
    /\ \A k \in 1 .. MaxCycles : cycles[k].pc = "idle"
    /\ sendNow = {}
    /\ pendingAdds = {}
    /\ \A i \in MessageIds : timers[i] = 0
    /\ \A i \in 1 .. Len(messages) :
           ~(messages[i].status = "scheduled" /\ ParseISO(messages[i].scheduledFor) <= Now)

Tick ==
    /\ NoMicrotask
    /\ tick < MaxTick
    /\ Quiescent
    /\ tick' = tick + 1
    /\ UNCHANGED <<tz, contacts, messages, nextContactId, activeClients,
                   pendingAdds, cycles, sendNow, timers, gatewayCalls, results,
                   calc, schedulerErrors, notifyVars>>

Next ==
    \/ \E s \in Sessions : Login(s, "AC1")
    \/ \E s \in Sessions : Logout(s)
    \/ \E name \in Names, phone \in Phones, md \in Birthdays :
           AddContactBegin(name, phone, md)
    \/ \E id \in ContactIds, rnd \in Rnds : AddContactFinish(id, rnd)
    \/ \E id \in ContactIds : DeleteContact(id)
    \/ \E rnd \in Rnds : ScheduleAll(rnd)
    \/ \E id \in MessageIds : Cancel(id)
    \/ \E id \in ContactIds, rnd \in Rnds : SendNowBegin(id, rnd)
    \/ \E id \in MessageIds, outcome \in ProviderOutcomes : SendNowFinish(id, outcome)
    \/ \E id \in MessageIds : TimerFire(id)
    \/ \E k \in 1 .. MaxCycles, rnd \in Rnds : CycleStart(k, rnd)
    \/ \E k \in 1 .. MaxCycles, outcome \in ProviderOutcomes, rnd \in Rnds :
           CycleResume(k, outcome, rnd)
    \/ \E k \in 1 .. MaxCycles, rnd \in Rnds : CycleContinue(k, rnd)
    \/ Tick

Spec == Init /\ [][Next]_vars

----------------------------------------------------------------------------
(* The dispatch under fair scheduling.  The requests are those that add and
   delete contacts, cancel occurrences and send at once, in one time zone and
   for one birthday. *)

\* The steps the run time takes by itself: the cron trigger's cycle, the
\* provider's answer to a cycle or to send-now, the resumption of a settled
\* await, and the delivery timer.
Progress ==
    \/ \E k \in 1 .. MaxCycles, rnd \in Rnds : CycleStart(k, rnd)
    \/ \E k \in 1 .. MaxCycles, outcome \in ProviderOutcomes, rnd \in Rnds :
           CycleResume(k, outcome, rnd)
    \/ \E k \in 1 .. MaxCycles, rnd \in Rnds : CycleContinue(k, rnd)
    \/ \E id \in MessageIds : TimerFire(id)
    \/ \E id \in MessageIds, outcome \in ProviderOutcomes : SendNowFinish(id, outcome)

\* An occurrence a cycle that starts now would send.
DueScheduled ==
    \E i \in 1 .. Len(messages) :
        /\ messages[i].status = "scheduled"
        /\ ParseISO(messages[i].scheduledFor) <= Now

\* The store holds MaxMessages occurrences and a cycle's simulated success
\* would add one more: the model does not follow the cycle further.
StoreLimit ==
    \E k \in 1 .. MaxCycles :
        /\ cycles[k].pc = "settled"
        /\ \A rnd \in Rnds :
               Len(AfterSend(Store, cycles[k], SimulatedResult(Now), contacts, Now, tz,
                             rnd).st.messages) > MaxMessages

\* A step of Progress that changes the state is possible: a timer is pending,
\* a send-now or a cycle awaits the provider, a cycle would find a due
\* occurrence, or a settled await can be resumed.
ProgressEnabled ==
    \/ NoMicrotask /\ \E id \in MessageIds : timers[id] > 0
    \/ NoMicrotask /\ sendNow # {}
    \/ NoMicrotask /\ \E k \in 1 .. MaxCycles : cycles[k].pc = "awaiting"
    \/ NoMicrotask /\ DueScheduled /\ \E k \in 1 .. MaxCycles : cycles[k].pc = "idle"
    \/ (\E k \in 1 .. MaxCycles : cycles[k].pc = "settled") /\ ~StoreLimit

\* The clock goes on, and Progress is weakly fair: the cron trigger fires
\* every minute, the provider answers or the call times out, a settled await
\* is resumed and a timer that was set fires.  The weak fairness of Progress
\* is stated with its enabling condition written out.
Fairness ==
    /\ WF_vars(Tick)
    /\ []<>(~ProgressEnabled) \/ []<><<Progress>>_vars

InitFair == Init /\ tz = -5

NextFair ==
    \/ \E s \in Sessions : Login(s, "AC1")
    \/ \E s \in Sessions : Logout(s)
    \/ \E name \in Names, phone \in Phones : AddContactBegin(name, phone, <<3, 15>>)
    \/ \E id \in ContactIds, rnd \in Rnds : AddContactFinish(id, rnd)
    \/ \E id \in ContactIds : DeleteContact(id)
    \/ \E id \in MessageIds : Cancel(id)
    \/ \E id \in ContactIds, rnd \in Rnds : SendNowBegin(id, rnd)
    \/ Progress
    \/ Tick

SpecFair == InitFair /\ [][NextFair]_vars /\ Fairness

----------------------------------------------------------------------------
(* The dispatch when the store fails.  A store access of processDueMessages
   throws (loadData's readFileSync or JSON.parse, saveData's writeFileSync):
   the promise of processDueMessages is rejected and the cron callback's
   catch logs the error. *)

\* A cron callback whose error is not caught: the rejection is unhandled and
\* ends the process, no slot runs again.
CycleThrowAfterSend_Uncaught(k) ==
    /\ cycles[k].pc \in {"awaiting", "settled"}
    /\ cycles[k].pc = "awaiting" => NoMicrotask
    /\ Len(schedulerErrors) < MaxErrors
    /\ cycles' = [j \in 1 .. MaxCycles |-> [IdleCycle EXCEPT !.pc = "crashed"]]
    /\ schedulerErrors' = Append(schedulerErrors, Now)
    /\ UNCHANGED <<tz, tick, contacts, messages, nextContactId, activeClients,
                   pendingAdds, sendNow, timers, gatewayCalls, results, calc, notifyVars>>

\* processDueMessages resumes after its await and the store access that
\* records the result throws: the occurrence stays 'sending', the cycle ends
CycleThrowAfterSend(k) ==
    /\ cycles[k].pc \in {"awaiting", "settled"}
    /\ cycles[k].pc = "awaiting" => NoMicrotask
    /\ Len(schedulerErrors) < MaxErrors
    /\ cycles' = [cycles EXCEPT ![k] = IdleCycle]
    /\ schedulerErrors' = Append(schedulerErrors, Now)
    /\ UNCHANGED <<tz, tick, contacts, messages, nextContactId, activeClients,
                   pendingAdds, sendNow, timers, gatewayCalls, results, calc, notifyVars>>

\* The cron callback fires and getMessages() throws: the cycle ends at once
CycleThrowAtStart(k) ==
    /\ NoMicrotask
    /\ cycles[k].pc = "idle"
    /\ \A j \in 1 .. (k - 1) : cycles[j].pc # "idle"
    /\ Len(schedulerErrors) < MaxErrors
    /\ schedulerErrors' = Append(schedulerErrors, Now)
    /\ UNCHANGED <<tz, tick, contacts, messages, nextContactId, activeClients,
                   pendingAdds, cycles, sendNow, timers, gatewayCalls, results,
                   calc, notifyVars>>

NextFaulty ==
    \/ NextFair
    \/ \E k \in 1 .. MaxCycles : CycleThrowAtStart(k)
    \/ \E k \in 1 .. MaxCycles : CycleThrowAfterSend(k)

SpecFaulty == InitFair /\ [][NextFaulty]_vars /\ Fairness


----------------------------------------------------------------------------
(* The dispatch with several sessions, which log in, log in again under
   another account and log out while contacts are added and cycles run. *)

NextSessions ==
    \/ \E s \in SessionIds, account \in Accounts : Login(s, account)
    \/ \E s \in SessionIds : Logout(s)
    \/ \E name \in Names, phone \in Phones : AddContactBegin(name, phone, <<3, 15>>)
    \/ \E id \in ContactIds, rnd \in Rnds : AddContactFinish(id, rnd)
    \/ \E id \in MessageIds : TimerFire(id)
    \/ \E k \in 1 .. MaxCycles, rnd \in Rnds : CycleStart(k, rnd)
    \/ \E k \in 1 .. MaxCycles, outcome \in ProviderOutcomes, rnd \in Rnds :
           CycleResume(k, outcome, rnd)
    \/ \E k \in 1 .. MaxCycles, rnd \in Rnds : CycleContinue(k, rnd)
    \/ Tick

SpecSessions == InitFair /\ [][NextSessions]_vars

----------------------------------------------------------------------------
(* The Notify service resolution: ensureNotifyService as the login, the
   session's sends and the scheduler's sends call it.  A login whose call has
   to create the service is suspended on the provider. *)

\* ensureNotifyService up to its call of createService (sms-service.ts 75-92):
\* the cache, then the credentials' id, then the store's id.
\* credsSid: bundle.credentials.notifyServiceSid; stored: getNotifyServiceSid()
EnsureNotifyService(cache, stored, credsSid, key) ==
    IF cache[key] # Undefined
    THEN [resolved |-> TRUE, sid |-> cache[key], cache |-> cache]
    ELSE IF credsSid # Undefined
    THEN [resolved |-> TRUE, sid |-> credsSid, cache |-> [cache EXCEPT ![key] = credsSid]]
    ELSE IF stored # Undefined
    THEN [resolved |-> TRUE, sid |-> stored, cache |-> [cache EXCEPT ![key] = stored]]
    ELSE [resolved |-> FALSE, sid |-> Undefined, cache |-> cache]

\* A call with this key returned r.sid: the cache, the id first resolved for
\* the key and the record of the call.  later: the call began when an id was
\* resolved for the key.
Ensured(key, r, created, later) ==
    /\ sessionNotifyServiceSids' = r.cache
    /\ firstResolved' = IF firstResolved[key] = Undefined
                        THEN [firstResolved EXCEPT ![key] = r.sid]
                        ELSE firstResolved
    /\ ensured' = [key |-> key, sid |-> r.sid, created |-> created, later |-> later]

\* POST /api/auth/login whose ensureNotifyService(bundle, sessionId) returns
\* from the cache or the store: setSessionClient(sessionId, bundle)
LoginResolved(s, account, r) ==
    /\ r.resolved
    /\ Ensured(s, r, FALSE, firstResolved[s] # Undefined)
    /\ activeClients' = SetSessionClient(activeClients, s, Bundle(account, r.sid[1]))
    /\ UNCHANGED <<notifyServiceSid, pendingEnsures, serviceCalls>>

\* POST /api/auth/login whose ensureNotifyService calls createService
LoginSuspended(s, account, r) ==
    /\ ~r.resolved
    /\ serviceCalls < MaxServiceCalls
    /\ serviceCalls' = serviceCalls + 1
    /\ pendingEnsures' = pendingEnsures
           \cup {[key |-> s, account |-> account, call |-> serviceCalls + 1]}
    /\ UNCHANGED <<activeClients, sessionNotifyServiceSids, notifyServiceSid,
                   firstResolved, ensured>>

\* POST /api/auth/login up to the return or the suspension of
\* ensureNotifyService; the credentials of a login carry no service id
LoginBegin(s, account) ==
    /\ \/ LoginResolved(s, account,
                        EnsureNotifyService(sessionNotifyServiceSids, notifyServiceSid,
                                            Undefined, s))
       \/ LoginSuspended(s, account,
                         EnsureNotifyService(sessionNotifyServiceSids, notifyServiceSid,
                                             Undefined, s))
    /\ UNCHANGED <<tz, tick, contacts, messages, nextContactId, pendingAdds,
                   cycles, sendNow, timers, gatewayCalls, results, calc,
                   schedulerErrors>>

\* createService answered with a sid (sms-service.ts 118-124), and the login
\* goes on: creds.notifyServiceSid = serviceSid, setSessionClient
LoginCreated(p) ==
    /\ Ensured(p.key,
               [sid   |-> Some(ServiceSids[p.call]),
                cache |-> [sessionNotifyServiceSids EXCEPT
                               ![p.key] = Some(ServiceSids[p.call])]],
               TRUE, FALSE)
    /\ notifyServiceSid' = Some(ServiceSids[p.call])
    /\ activeClients' = SetSessionClient(activeClients, p.key,
                                         Bundle(p.account, ServiceSids[p.call]))

\* createService answered without a sid or threw: ensureNotifyService returns
\* null and the login answers 401
LoginRefused(p) ==
    /\ ensured' = [key |-> p.key, sid |-> Undefined, created |-> TRUE, later |-> FALSE]
    /\ UNCHANGED <<activeClients, sessionNotifyServiceSids, notifyServiceSid,
                   firstResolved>>

\* POST /api/auth/login after the await of createService
LoginFinish(p, ok) ==
    /\ p \in pendingEnsures
    /\ pendingEnsures' = pendingEnsures \ {p}
    /\ IF ok THEN LoginCreated(p) ELSE LoginRefused(p)
    /\ UNCHANGED <<tz, tick, contacts, messages, nextContactId, pendingAdds,
                   cycles, sendNow, timers, gatewayCalls, results, calc,
                   schedulerErrors, serviceCalls>>

\* A send of processDueMessages with the first active session's bundle:
\* sendBirthdaySms(bundle, 'scheduler', ...) up to createNotification
SchedulerSend ==
    /\ activeClients # <<>>
    /\ Ensured("scheduler",
               EnsureNotifyService(sessionNotifyServiceSids, notifyServiceSid,
                                   Some(activeClients[1].bundle.notifyServiceSid),
                                   "scheduler"),
               FALSE, firstResolved["scheduler"] # Undefined)
    /\ UNCHANGED <<tz, tick, contacts, messages, nextContactId, activeClients,
                   pendingAdds, cycles, sendNow, timers, gatewayCalls, results,
                   calc, schedulerErrors, notifyServiceSid, pendingEnsures,
                   serviceCalls>>

\* A send or a binding of a session's request with the session's bundle:
\* sendBirthdaySms(bundle, req.sessionID, ...), createSmsBinding(bundle,
\* req.sessionID, ...) up to the provider call
SessionSend(i) ==
    /\ i \in 1 .. Len(activeClients)
    /\ Ensured(activeClients[i].sessionId,
               EnsureNotifyService(sessionNotifyServiceSids, notifyServiceSid,
                                   Some(activeClients[i].bundle.notifyServiceSid),
                                   activeClients[i].sessionId),
               FALSE, firstResolved[activeClients[i].sessionId] # Undefined)
    /\ UNCHANGED <<tz, tick, contacts, messages, nextContactId, activeClients,
                   pendingAdds, cycles, sendNow, timers, gatewayCalls, results,
                   calc, schedulerErrors, notifyServiceSid, pendingEnsures,
                   serviceCalls>>

NextNotify ==
    \/ \E s \in SessionIds, account \in Accounts : LoginBegin(s, account)
    \/ \E s \in SessionIds, account \in Accounts, call \in 1 .. MaxServiceCalls,
             ok \in BOOLEAN :
           LoginFinish([key |-> s, account |-> account, call |-> call], ok)
    \/ \E s \in SessionIds : Logout(s)
    \/ SchedulerSend
    \/ \E i \in 1 .. Cardinality(SessionIds) : SessionSend(i)

SpecNotify == InitFair /\ [][NextNotify]_vars

----------------------------------------------------------------------------
(* The occurrence calculator on its own: getNextBirthdayDate applied to the
   birthday string of a month and a day the server accepts (server.ts 234)
   and a reference instant, in a time zone. *)

CalcTimeZones == {-5, 0, 10}
RefYears == 2023 .. (2023 + MaxRefYears - 1)

\* Reference instants: an hour before, at and an hour after 09:00 on the
\* recurrence's day, and the first and the last hour of the year.
RefInstants(month, day, zone) ==
    { MakeDate(y, month - 1, day, h, zone) : y \in RefYears, h \in {8, 9, 10} }
    \cup { MakeDate(y, 0, 1, 0, zone) : y \in RefYears }
    \cup { MakeDate(y, 11, 31, 23, zone) : y \in RefYears }

InitCalc ==
    /\ tz \in CalcTimeZones
    /\ tick = 0
    /\ contacts = <<>>
    /\ messages = <<>>
    /\ nextContactId = 1
    /\ activeClients = <<>>
    /\ pendingAdds = {}
    /\ cycles = [k \in 1 .. MaxCycles |-> IdleCycle]
    /\ sendNow = {}
    /\ timers = [i \in MessageIds |-> 0]
    /\ gatewayCalls = [i \in MessageIds |-> 0]
    /\ results = [i \in MessageIds |-> Undefined]
    /\ schedulerErrors = <<>>
    /\ NotifyInit
    /\ \E month \in 1 .. 12, day \in 1 .. 31 :
          \E ref \in RefInstants(month, day, tz) :
              calc = [phase |-> "input", month |-> month, day |-> day,
                      ref |-> ref, result |-> 0]

\* getNextBirthdayDate(contact.birthday, ref)
ApplyCalc ==
    /\ calc.phase = "input"
    /\ calc' = [calc EXCEPT !.phase = "done",
                            !.result = GetNextBirthdayDate(
                                           FormatBirthday(calc.month, calc.day),
                                           calc.ref, tz)]
    /\ UNCHANGED <<tz, tick, contacts, messages, nextContactId, activeClients,
                   pendingAdds, cycles, sendNow, timers, gatewayCalls, results,
                   schedulerErrors, notifyVars>>

NextCalc == ApplyCalc

SpecCalc == InitCalc /\ [][NextCalc]_vars

----------------------------------------------------------------------------
(* The phone normaliser on its own: validateAndFormatPhone applied to an
   input string.  The inputs are every string of up to MaxPhonePrefix
   characters of PhoneChars, followed by up to MaxPhonePad digits 5. *)

PhoneChars == {"+", " ", "0", "1", "4", "9"}

PhonePrefixes == UNION { [1 .. n -> PhoneChars] : n \in 0 .. MaxPhonePrefix }

PhonePad(k) == [i \in 1 .. k |-> "5"]

PhoneInputs == { p \o PhonePad(k) : p \in PhonePrefixes, k \in 0 .. MaxPhonePad }

\* The store of a process that has handled no request.
EmptyStore ==
    /\ tick = 0
    /\ contacts = <<>>
    /\ messages = <<>>
    /\ nextContactId = 1
    /\ activeClients = <<>>
    /\ pendingAdds = {}
    /\ cycles = [k \in 1 .. MaxCycles |-> IdleCycle]
    /\ sendNow = {}
    /\ timers = [i \in MessageIds |-> 0]
    /\ gatewayCalls = [i \in MessageIds |-> 0]
    /\ results = [i \in MessageIds |-> Undefined]
    /\ schedulerErrors = <<>>
    /\ NotifyInit

InitPhone ==
    /\ tz = 0
    /\ EmptyStore
    /\ \E input \in PhoneInputs :
          calc = [phase |-> "input", input |-> input, result |-> Undefined]

\* validateAndFormatPhone(String(phone))
ApplyPhone ==
    /\ calc.phase = "input"
    /\ calc' = [calc EXCEPT !.phase = "done",
                            !.result = ValidateAndFormatPhone(calc.input)]
    /\ UNCHANGED <<tz, tick, contacts, messages, nextContactId, activeClients,
                   pendingAdds, cycles, sendNow, timers, gatewayCalls, results,
                   schedulerErrors, notifyVars>>

NextPhone == ApplyPhone

SpecPhone == InitPhone /\ [][NextPhone]_vars

----------------------------------------------------------------------------
(* interpolateName on its own, as the preview request calls it: applied to a
   non-empty template and to a non-empty name of up to MaxNameLen characters
   of NameChars. *)

Templates ==
    { <<"H", "i", "!">>,
      <<"H", "i", " ", "{", "{", "n", "a", "m", "e", "}", "}", "!">>,
      <<"{", "{", "n", "a", "m", "e", "}", "}", "{", "{", "n", "a", "m", "e", "}", "}">>,
      <<"{", "n", "a", "m", "e", "}", "}", " ", "t", "o", " ", "{", "{", " ", "n", "a", "m", "e", " ", "}", "}">>,
      <<"a", "{", "{", "n", "a", "m", "e", "}", "}", "b", "{", "{", "n", "a", "m", "e", "}", "}", "c">> }

NameChars == {"a", " ", "<", ">", "$", "&"}

NameInputs == UNION { [1 .. n -> NameChars] : n \in 1 .. MaxNameLen }

InitRender ==
    /\ tz = 0
    /\ EmptyStore
    /\ \E template \in Templates, name \in NameInputs :
          calc = [phase |-> "input", template |-> template, name |-> name,
                  result |-> <<>>]

\* interpolateName(String(template), safeName)
ApplyRender ==
    /\ calc.phase = "input"
    /\ calc' = [calc EXCEPT !.phase = "done",
                            !.result = InterpolateName(calc.template, calc.name)]
    /\ UNCHANGED <<tz, tick, contacts, messages, nextContactId, activeClients,
                   pendingAdds, cycles, sendNow, timers, gatewayCalls, results,
                   schedulerErrors, notifyVars>>

NextRender == ApplyRender

SpecRender == InitRender /\ [][NextRender]_vars

----------------------------------------------------------------------------
(* Properties of the store and the dispatch loop *)

\* The stored message holding an id.
MessageOf(ms, id) == ms[IndexOfId(ms, id)]

\* C1: the store never holds two occurrences with status 'scheduled' for the
\* same subject id and the same recurrence year, whatever was interleaved.
C1_AtMostOneScheduled ==
    \A i, j \in 1 .. Len(messages) :
        (/\ messages[i].status = "scheduled"
         /\ messages[j].status = "scheduled"
         /\ messages[i].contactId = messages[j].contactId
         /\ messages[i].year = messages[j].year) => i = j

\* A subject holds two occurrences of one year, one of them cancelled and the
\* other scheduled again after the cancellation.
C1_Witness ==
    \E i, j \in 1 .. Len(messages) :
        /\ i < j
        /\ messages[i].contactId = messages[j].contactId
        /\ messages[i].year = messages[j].year
        /\ messages[i].status = "cancelled"
        /\ messages[j].status = "scheduled"

\* C2: every occurrence is passed to the gateway's send at most once over its
\* whole life, also when cycles overlap.
C2_SentAtMostOnce == \A id \in MessageIds : gatewayCalls[id] <= 1

StatusEdges ==
    { <<"scheduled", "sending">>, <<"sending", "sent">>, <<"sending", "failed">>,
      <<"sent", "delivered">>, <<"scheduled", "cancelled">> }

\* C3: a stored status changes only along scheduled->sending, sending->sent,
\* sending->failed, sent->delivered and scheduled->cancelled; delivered,
\* failed and cancelled never change, so sent->delivered happens once at most.
C3_StatusEdgesOnly ==
    [][\A i \in 1 .. Len(messages) :
          \/ messages'[i].status = messages[i].status
          \/ <<messages[i].status, messages'[i].status>> \in StatusEdges]_vars

\* C4: an occurrence that was cancelled is never afterwards set to 'sending'
\* and never passed to the gateway, also when a cycle that read it as
\* 'scheduled' was suspended during the cancellation.
C4_CancelledNeverSent ==
    [][\A i \in 1 .. Len(messages) :
          messages[i].status = "cancelled" =>
              /\ messages'[i].status # "sending"
              /\ gatewayCalls'[messages[i].id] = gatewayCalls[messages[i].id]]_vars

\* The second of two calls in succession returns the first call's occurrence
\* and leaves the store as the first call left it.
C5_SecondCallSame(r1, r2) ==
    /\ r1.result # Undefined
    /\ r2.result # Undefined
    /\ r2.result[1].id = r1.result[1].id
    /\ r2.messages = r1.messages

C5_Twice(r1, contactId, rnd) ==
    C5_SecondCallSame(r1, ScheduleMessagesForContact(contacts, r1.messages, contactId,
                                                     Now, tz, rnd))

\* C5: scheduleMessagesForContact called twice in succession for an existing
\* subject returns an occurrence of the same id both times, and the second
\* call adds no record.
C5_Idempotent ==
    \A c \in 1 .. Len(contacts), rnd \in Rnds :
        C5_Twice(ScheduleMessagesForContact(contacts, messages, contacts[c].id, Now, tz, rnd),
                 contacts[c].id, rnd)

\* A subject whose occurrence the scheduler has created: a further call
\* returns that occurrence and adds nothing.
C5_Witness ==
    \E c \in 1 .. Len(contacts), i \in 1 .. Len(messages), rnd \in Rnds :
        /\ messages[i].contactId = contacts[c].id
        /\ messages[i].status = "scheduled"
        /\ ScheduleMessagesForContact(contacts, messages, contacts[c].id, Now, tz, rnd)
             = [result |-> Some(messages[i]), messages |-> messages]

\* C6: deleting a subject sets its 'scheduled' occurrences to 'cancelled',
\* leaves every other occurrence unchanged in all fields and removes no record.
C6_DeleteCancelsScheduledOnly ==
    [][\A c \in 1 .. Len(contacts) :
          ~HasContact(contacts', contacts[c].id) =>
              /\ Len(messages') = Len(messages)
              /\ \A i \in 1 .. Len(messages) :
                    /\ messages'[i].id = messages[i].id
                    /\ IF messages[i].contactId = contacts[c].id
                          /\ messages[i].status = "scheduled"
                       THEN /\ messages'[i].status = "cancelled"
                            /\ [messages'[i] EXCEPT !.status = "scheduled"] = messages[i]
                       ELSE messages'[i] = messages[i]]_vars

\* A deleted subject's occurrence is cancelled while another subject's
\* occurrence is still scheduled.
C6_Witness ==
    \E i, j \in 1 .. Len(messages) :
        /\ ~HasContact(contacts, messages[i].contactId)
        /\ messages[i].status = "cancelled"
        /\ HasContact(contacts, messages[j].contactId)
        /\ messages[j].status = "scheduled"

\* The occurrence id is 'sent' and, while its subject exists, the subject has
\* a 'scheduled' occurrence with a fire instant after nowT, of the year after
\* the occurrence's.
C7_SentAndArmed(ms, cs, sent, nowT) ==
    /\ sent.status = "sent"
    /\ HasContact(cs, sent.contactId) =>
           \E j \in 1 .. Len(ms) :
               /\ ms[j].contactId = sent.contactId
               /\ ms[j].status = "scheduled"
               /\ ParseISO(ms[j].scheduledFor) > nowT
               /\ ms[j].year = sent.year + 1

\* C7 as stated: when a cycle ends, every occurrence it recorded a gateway
\* success for is 'sent' and, if its subject exists, the subject has a
\* 'scheduled' occurrence in the future, of the following year.
C7_SentAndArmedAtCycleEnd ==
    [][\A k \in 1 .. MaxCycles :
          (cycles[k].pc # "idle" /\ cycles'[k].pc = "idle") =>
              \A id \in cycles[k].sentOk \cup {i \in MessageIds : timers'[i] > timers[i]} :
                  C7_SentAndArmed(messages', contacts', MessageOf(messages', id), Now)]_vars

\* The same with the year only asked of an occurrence processed less than
\* 365 days after its fire instant.
C7_SentAndArmedTimely(ms, cs, sent, before, nowT) ==
    /\ sent.status = "sent"
    /\ HasContact(cs, sent.contactId) =>
           \E j \in 1 .. Len(ms) :
               /\ ms[j].contactId = sent.contactId
               /\ ms[j].status = "scheduled"
               /\ ParseISO(ms[j].scheduledFor) > nowT
               /\ nowT < ParseISO(before.scheduledFor) + 365 * 24 =>
                      ms[j].year = before.year + 1

\* C7, amended: right after a cycle has recorded a gateway success for an
\* occurrence (before the cycle goes on to another occurrence) the occurrence
\* is 'sent' and, if its subject exists, the subject has a 'scheduled'
\* occurrence with a fire instant in the future, and of the following year
\* when the occurrence was processed less than 365 days after its fire instant.
C7_SentAndArmedOnSuccess ==
    [][\A id \in MessageIds :
          (timers'[id] > timers[id] /\ cycles' # cycles) =>
              C7_SentAndArmedTimely(messages', contacts', MessageOf(messages', id),
                                    MessageOf(messages, id), Now)]_vars

\* A cycle has recorded a success (the delivery timer is pending) and the
\* existing subject's occurrence of the following year is scheduled.
C7_Witness ==
    \E i, j \in 1 .. Len(messages) :
        /\ messages[i].status = "sent"
        /\ timers[messages[i].id] > 0
        /\ gatewayCalls[messages[i].id] = 1
        /\ messages[i].id \notin sendNow
        /\ ParseISO(messages[i].createdAt) < ParseISO(messages[i].scheduledFor)
        /\ HasContact(contacts, messages[i].contactId)
        /\ messages[j].contactId = messages[i].contactId
        /\ messages[j].status = "scheduled"
        /\ messages[j].year = messages[i].year + 1
        /\ ParseISO(messages[j].scheduledFor) > Now

\* The ids whose gateway result a handler takes up in this step: the message a
\* cycle awaited, or the message of a send-now request.
C8_Handled ==
    { cycles[k].snap[cycles[k].pos].id :
          k \in {c \in 1 .. MaxCycles : /\ cycles[c].pc \in {"awaiting", "settled"}
                                        /\ cycles'[c] # cycles[c]} }
    \cup (sendNow \ sendNow')

----------------------------------------------------------------------------
(* Properties of the occurrence calculator *)

\* The result is strictly after the reference, at 09:00 local time, in the
\* reference's local year or the next, and at most 366 days after it.
C9_AfterRefWithinYear(res, ref, resLocal, refLocal) ==
    /\ res > ref
    /\ resLocal.h = FireHour
    /\ resLocal.y \in {refLocal.y, refLocal.y + 1}
    /\ res - ref <= 366 * 24

\* C9 as stated: for every month 1-12, day 1-31 and reference instant the
\* result is strictly after the reference, at 09:00 local time, on exactly the
\* given month and day, in the reference's year or the next, and at most 366
\* days after the reference.
C9_OnGivenMonthAndDay ==
    calc.phase = "done" =>
        /\ C9_AfterRefWithinYear(calc.result, calc.ref,
                                 LocalOf(calc.result, tz), LocalOf(calc.ref, tz))
        /\ LocalOf(calc.result, tz).mo = calc.month
        /\ LocalOf(calc.result, tz).d = calc.day

\* The local date is the given month and day when the month of that year has
\* the day, and else the day counted on into the following month.
C9_GivenOrRolledOver(resLocal, month, day) ==
    IF day <= DaysInMonth(resLocal.y, month)
    THEN resLocal.mo = month /\ resLocal.d = day
    ELSE resLocal.mo = month + 1 /\ resLocal.d = day - DaysInMonth(resLocal.y, month)

\* C9, amended: the result is strictly after the reference, at 09:00 local
\* time, in the reference's year or the next, at most 366 days after the
\* reference, and on the given month and day when that month has the day in
\* the result's year; a day past the month's end is counted on into the
\* following month.
C9_OnGivenOrRolledOverDay ==
    calc.phase = "done" =>
        /\ C9_AfterRefWithinYear(calc.result, calc.ref,
                                 LocalOf(calc.result, tz), LocalOf(calc.ref, tz))
        /\ C9_GivenOrRolledOver(LocalOf(calc.result, tz), calc.month, calc.day)

\* February 30th, asked at 09:00 on March 1st 2024 (the day it rolls over to):
\* the result is March 2nd 2025, 366 days later.
C9_Witness ==
    /\ calc.phase = "done"
    /\ calc.month = 2
    /\ calc.day = 30
    /\ LocalOf(calc.ref, tz) = [y |-> 2024, mo |-> 3, d |-> 1, h |-> 9]
    /\ LocalOf(calc.result, tz) = [y |-> 2025, mo |-> 3, d |-> 2, h |-> 9]
    /\ calc.result - calc.ref = 366 * 24

\* Instant t is year y's candidate of the recurrence: 09:00 local time, day - 1
\* days after the first of the month.
C10_IsCandidate(t, y, month, day, zone) ==
    LocalOf(t - (day - 1) * 24, zone) = [y |-> y, mo |-> month, d |-> 1, h |-> FireHour]

\* The result is the reference year's candidate and after the reference, or
\* the next year's candidate while the reference year's (a year of 365 or 366
\* days earlier) is not after the reference.
C10_Selects(res, ref, refYear, month, day, zone) ==
    \/ /\ C10_IsCandidate(res, refYear, month, day, zone)
       /\ res > ref
    \/ /\ C10_IsCandidate(res, refYear + 1, month, day, zone)
       /\ \E n \in {365, 366} :
             /\ C10_IsCandidate(res - n * 24, refYear, month, day, zone)
             /\ res - n * 24 <= ref

\* The two examples: (3, 15) asked at 2024-03-15T10:00 gives 2025-03-15T09:00,
\* asked at 2024-03-15T08:00 gives 2024-03-15T09:00.
C10_Examples(refLocal, resLocal, month, day) ==
    (month = 3 /\ day = 15 /\ refLocal.y = 2024 /\ refLocal.mo = 3 /\ refLocal.d = 15) =>
        /\ refLocal.h = 10 => resLocal = [y |-> 2025, mo |-> 3, d |-> 15, h |-> 9]
        /\ refLocal.h = 8  => resLocal = [y |-> 2024, mo |-> 3, d |-> 15, h |-> 9]

\* C10: the result is the reference year's candidate (the month and day at
\* 09:00) exactly when that candidate is strictly after the reference, and
\* else the candidate one calendar year later; with the claim's two examples.
C10_ThisYearIffAfterRef ==
    calc.phase = "done" =>
        /\ C10_Selects(calc.result, calc.ref, GetFullYear(calc.ref, tz),
                       calc.month, calc.day, tz)
        /\ C10_Examples(LocalOf(calc.ref, tz), LocalOf(calc.result, tz),
                        calc.month, calc.day)

\* (3, 15) asked at 09:00 on 2024-03-15, the candidate itself: the result is
\* the candidate of 2025.
C10_Witness ==
    /\ calc.phase = "done"
    /\ calc.month = 3
    /\ calc.day = 15
    /\ LocalOf(calc.ref, tz) = [y |-> 2024, mo |-> 3, d |-> 15, h |-> 9]
    /\ LocalOf(calc.result, tz) = [y |-> 2025, mo |-> 3, d |-> 15, h |-> 9]

----------------------------------------------------------------------------
(* Further properties of the store, the dispatch loop and the requests *)

\* The occurrence is 'sent' under the placeholder identifier made at nowT, no
\* failure is recorded for it, and its subject, if it exists, is armed.
C11_SentSimulated(ms, cs, sent, before, result, nowT) ==
    /\ sent.notificationSid = Some("SIM_" \o ToString(nowT))
    /\ sent.errorMessage = Undefined
    /\ result # Undefined
    /\ result[1].success
    /\ C7_SentAndArmedTimely(ms, cs, sent, before, nowT)

\* C11: a cycle that found no active gateway channel at its start treats every
\* due 'scheduled' occurrence it claims as sent: the occurrence becomes 'sent'
\* with a locally made placeholder identifier, is not marked 'failed', and
\* the subject's next occurrence is armed as on a real success.
C11_NoChannelSimulatesSuccess ==
    [][\A k \in 1 .. MaxCycles :
          (/\ cycles[k].bundle = NoBundle
           /\ cycles[k].pc # "idle"
           /\ cycles'[k] # cycles[k]) =>
              C11_SentSimulated(messages', contacts',
                  MessageOf(messages', cycles[k].snap[cycles[k].pos].id),
                  MessageOf(messages, cycles[k].snap[cycles[k].pos].id),
                  results'[cycles[k].snap[cycles[k].pos].id], Now)]_vars

\* An occurrence of the scheduler is 'sent' under a placeholder identifier
\* and its existing subject's occurrence of the following year is scheduled.
C11_Witness ==
    \E i, j \in 1 .. Len(messages) :
        /\ messages[i].status = "sent"
        /\ messages[i].notificationSid = Some("SIM_" \o ToString(Now))
        /\ ParseISO(messages[i].createdAt) < ParseISO(messages[i].scheduledFor)
        /\ HasContact(contacts, messages[i].contactId)
        /\ messages[j].contactId = messages[i].contactId
        /\ messages[j].status = "scheduled"
        /\ messages[j].year = messages[i].year + 1

C13_ReturnedFor(ms, returned, contact, year) ==
    /\ returned.contactId = contact.id
    /\ returned.status = "scheduled"
    /\ returned.year = year
    /\ \E j \in 1 .. Len(ms) : ms[j] = returned
    /\ Cardinality({j \in 1 .. Len(ms) : /\ ms[j].contactId = contact.id
                                         /\ ms[j].status = "scheduled"
                                         /\ ms[j].year = year}) = 1

\* What scheduleAllContacts returned (r) on the subjects cs and the messages
\* before: one occurrence per subject, in the subjects' order; the messages
\* before are still there, unchanged; and a record was added only for a
\* subject that had no 'scheduled' occurrence of its upcoming year.
C13_OnePerSubject(r, cs, before, nowT, zone) ==
    /\ Len(r.scheduled) = Len(cs)
    /\ \A c \in 1 .. Len(cs) :
           C13_ReturnedFor(r.messages, r.scheduled[c], cs[c],
               GetFullYear(GetNextBirthdayDate(cs[c].birthday, nowT, zone), zone))
    /\ SubSeq(r.messages, 1, Len(before)) = before
    /\ Len(r.messages) - Len(before) =
           Cardinality({c \in 1 .. Len(cs) :
               ~\E j \in 1 .. Len(before) :
                   /\ before[j].contactId = cs[c].id
                   /\ before[j].status = "scheduled"
                   /\ before[j].year = GetFullYear(
                          GetNextBirthdayDate(cs[c].birthday, nowT, zone), zone)})

\* C13: scheduleAllContacts returns exactly one occurrence per existing
\* subject, each 'scheduled'; on return every subject has a 'scheduled'
\* occurrence of its upcoming year; occurrences already scheduled are
\* returned, not duplicated.
C13_ScheduleAllOnePerSubject ==
    \A rnd \in Rnds :
        C13_OnePerSubject(ScheduleAllContacts(contacts, messages, Now, tz, rnd),
                          contacts, messages, Now, tz)

\* Two subjects, the first with a scheduled occurrence and the second with
\* none: the bulk operation returns the first's and creates the second's.
C13_Witness ==
    /\ Len(contacts) = 2
    /\ Len(messages) = 1
    /\ messages[1].contactId = contacts[1].id
    /\ messages[1].status = "scheduled"
    /\ \E rnd \in Rnds :
          /\ ScheduleAllContacts(contacts, messages, Now, tz, rnd).scheduled[1] = messages[1]
          /\ Len(ScheduleAllContacts(contacts, messages, Now, tz, rnd).messages) = 2

\* Updates the handlers write.
C14_Updates ==
    { [status |-> "sending"],
      [status |-> "cancelled"],
      [status |-> "failed", errorMessage |-> Some("invalid destination")],
      [status |-> "delivered", deliveredAt |-> Some(ToISOString(Now))] }

\* C14: scheduleMessagesForContact for a subject id that is not in the store
\* returns null and leaves the store unchanged, and updateMessage for an
\* occurrence id that is not in the store leaves the store unchanged; both
\* return normally.
C14_UnknownIdsAreNoOps ==
    /\ \A id \in ContactIds, rnd \in Rnds :
           ~HasContact(contacts, id) =>
               ScheduleMessagesForContact(contacts, messages, id, Now, tz, rnd)
                   = [result |-> Undefined, messages |-> messages]
    /\ \A id \in MessageIds, updates \in C14_Updates :
           (~\E i \in 1 .. Len(messages) : messages[i].id = id) =>
               UpdateMessage(messages, id, updates) = messages

\* A subject was deleted while its add request awaited the binding, and the
\* request then called scheduleMessagesForContact for it: the request is over
\* and the store holds no occurrence of the subject.
C14_Witness ==
    \E id \in ContactIds :
        /\ id < nextContactId
        /\ id \notin pendingAdds
        /\ ~HasContact(contacts, id)
        /\ \A i \in 1 .. Len(messages) : messages[i].contactId # id
        /\ Len(messages) > 0

\* C15: a cancel request for an occurrence whose status is not 'scheduled' is
\* rejected and leaves the store unchanged, and a send in flight ends with the
\* occurrence stored as 'sent' or 'failed'.
C15_CancelOnlyScheduled ==
    /\ [](\A i \in 1 .. Len(messages) :
              messages[i].status # "scheduled" =>
                  CancelRequest(messages, messages[i].id) = [code |-> 400, messages |-> messages])
    /\ [][\A id \in C8_Handled :
              MessageOf(messages', id).status \in {"sent", "failed"}]_vars

\* A cycle awaits the provider's answer for an occurrence that is 'sending',
\* and a logged-in client's cancel request for it is rejected.
C15_Witness ==
    \E k \in 1 .. MaxCycles :
        /\ cycles[k].pc = "awaiting"
        /\ ApiAllowed
        /\ MessageOf(messages, cycles[k].snap[cycles[k].pos].id).status = "sending"
        /\ CancelRequest(messages, cycles[k].snap[cycles[k].pos].id).code = 400

\* C16: whenever validateAndFormatPhone reports a number valid, the formatted
\* number is well-formed E.164 as isE164 tests it: '+', a non-zero digit and
\* 6 to 14 further digits.
C16_ValidIsE164 ==
    (calc.phase = "done" /\ calc.result.valid) => IsE164(calc.result.formatted[1])

\* C17: no two stored contacts have the same normalised phone number, and an
\* add request for a number that is stored already is rejected and leaves the
\* contacts unchanged.
C17_UniquePhones ==
    /\ \A i, j \in 1 .. Len(contacts) :
           contacts[i].phone = contacts[j].phone => i = j
    /\ \A name \in Names, phone \in Phones, md \in Birthdays :
           IsDuplicatePhone(contacts, ValidateAndFormatPhone(phone).formatted[1]) =>
               AddContactRequest(contacts, nextContactId, name,
                                 ValidateAndFormatPhone(phone), md, Now)
                   = [code |-> 409, contacts |-> contacts]

\* A contact was deleted and its number added again as the second contact: the
\* deleted contact's occurrence has the stored contact's number, and a request
\* that writes the number in another way is rejected.
C17_Witness ==
    /\ Len(contacts) = 1
    /\ contacts[1].id = 2
    /\ \E i \in 1 .. Len(messages) :
           messages[i].contactId = 1 /\ messages[i].phone = contacts[1].phone
    /\ \E phone \in Phones :
           /\ <<"+">> \o SelectSeq(phone, IsDigitChar) # contacts[1].phone
           /\ AddContactRequest(contacts, nextContactId, "Ann",
                                ValidateAndFormatPhone(phone), <<3, 15>>, Now).code = 409

\* The template from position pos on with every placeholder replaced by the
\* text and every other character kept.
RECURSIVE C18_Substituted(_, _, _)
C18_Substituted(template, pos, text) ==
    IF pos > Len(template)
    THEN <<>>
    ELSE IF PlaceholderAt(template, pos)
    THEN text \o C18_Substituted(template, pos + Len(Placeholder), text)
    ELSE <<template[pos]>> \o C18_Substituted(template, pos + 1, text)

\* C18: interpolateName returns the template with every placeholder replaced
\* by the sanitised name (the name without '<' and '>', then trimmed) and all
\* other text of the template unchanged.
C18_PlaceholdersReplacedBySafeName ==
    calc.phase = "done" =>
        calc.result = C18_Substituted(calc.template, 1, SafeName(calc.name))

\* The fields of an occurrence that are set when it is created.
C19_SameIdentity(old, new) ==
    /\ new.id = old.id
    /\ new.contactId = old.contactId
    /\ new.contactName = old.contactName
    /\ new.phone = old.phone
    /\ new.messageBody = old.messageBody
    /\ new.scheduledFor = old.scheduledFor
    /\ new.year = old.year
    /\ new.createdAt = old.createdAt

\* C19: once an occurrence is stored, its id, contactId, contactName, phone,
\* messageBody, scheduledFor, year and createdAt never change: every step
\* keeps the occurrence in the store with these fields as they were, and
\* changes at most its status, notificationSid, errorMessage, sentAt and
\* deliveredAt.
C19_IdentityFieldsFrozen ==
    [][\A i \in 1 .. Len(messages) :
          /\ i <= Len(messages')
          /\ DOMAIN messages'[i] = DOMAIN messages[i]
          /\ C19_SameIdentity(messages[i], messages'[i])]_vars

\* An occurrence the scheduler created went through claim, success and
\* delivery, and its subject was deleted: it is 'delivered'
\* with its sid and both instants set, and is still the occurrence created
\* before its fire instant for the year of that instant.
C19_Witness ==
    \E i \in 1 .. Len(messages) :
        /\ messages[i].status = "delivered"
        /\ messages[i].notificationSid # Undefined
        /\ messages[i].sentAt # Undefined
        /\ messages[i].deliveredAt # Undefined
        /\ ~HasContact(contacts, messages[i].contactId)
        /\ ParseISO(messages[i].createdAt) < ParseISO(messages[i].scheduledFor)
        /\ messages[i].year = GetFullYear(ParseISO(messages[i].scheduledFor), tz)
        /\ messages[i].contactName = "Ann"

\* C20: when the dispatch loop invokes the gateway's send for an occurrence,
\* the occurrence is stored as 'sending'; and an occurrence a send was invoked
\* for is never 'scheduled' afterwards.
C20_SendingBeforeSend ==
    /\ [][\A id \in MessageIds :
              (gatewayCalls'[id] > gatewayCalls[id] /\ cycles' # cycles) =>
                  MessageOf(messages', id).status = "sending"]_vars
    /\ [](\A i \in 1 .. Len(messages) :
              gatewayCalls[messages[i].id] > 0 => messages[i].status # "scheduled")

\* A cycle has invoked the provider's send for an occurrence of the scheduler
\* and awaits the answer; the occurrence is 'sending'.
C20_Witness ==
    \E k \in 1 .. MaxCycles :
        /\ cycles[k].pc = "awaiting"
        /\ gatewayCalls[cycles[k].snap[cycles[k].pos].id] = 1
        /\ cycles[k].snap[cycles[k].pos].status = "scheduled"
        /\ cycles[k].snap[cycles[k].pos].id \notin sendNow
        /\ MessageOf(messages, cycles[k].snap[cycles[k].pos].id).status = "sending"

----------------------------------------------------------------------------
(* Further properties of the dispatch cycles, send-now and the sessions *)

\* The occurrence cycle k awaits the gateway's answer for, if any.
C21_Awaited(k) ==
    IF cycles[k].pc \in {"awaiting", "settled"}
    THEN {cycles[k].snap[cycles[k].pos].id}
    ELSE {}

\* The 'now' of the cycle that takes a step: the one it read at its start.
C21_CycleNow(k) == IF cycles[k].pc = "idle" THEN Now ELSE cycles[k].now

\* A step of a cycle leaves every occurrence that is not yet due at the
\* cycle's 'now' as it is.
C21_NotDueUntouched ==
    [][\A k \in 1 .. MaxCycles : cycles'[k] # cycles[k] =>
          \A i \in 1 .. Len(messages) :
              ParseISO(messages[i].scheduledFor) > C21_CycleNow(k) =>
                  messages'[i] = messages[i]]_vars

\* C21: a dispatch cycle changes no field of an occurrence whose fire instant
\* is after the cycle's 'now', and no field of an occurrence whose stored
\* status is not 'scheduled' when the cycle reaches it (the occurrence whose
\* send the cycle awaits, which it reached as 'scheduled', is recorded).
C21_CycleLeavesUntouched ==
    [][\A k \in 1 .. MaxCycles : cycles'[k] # cycles[k] =>
          \A i \in 1 .. Len(messages) :
              (\/ ParseISO(messages[i].scheduledFor) > C21_CycleNow(k)
               \/ /\ messages[i].status # "scheduled"
                  /\ messages[i].id \notin C21_Awaited(k)) =>
                  messages'[i] = messages[i]]_vars

\* C22: every occurrence stored as 'sent' or 'delivered' carries a provider
\* identifier and a sent timestamp, whichever path produced the success.
C22_SentHasSidAndTime ==
    \A i \in 1 .. Len(messages) :
        messages[i].status \in {"sent", "delivered"} =>
            /\ messages[i].notificationSid # Undefined
            /\ messages[i].notificationSid # Some("")
            /\ messages[i].sentAt # Undefined

\* A cycle's step that records a failed send of an occurrence adds no
\* occurrence of the occurrence's subject to the store.
C23_FailureCreatesNothing ==
    \A k \in 1 .. MaxCycles : cycles'[k] # cycles[k] =>
        \A id \in C21_Awaited(k) :
            (results'[id] # Undefined /\ ~results'[id][1].success) =>
                \A j \in 1 .. Len(messages') :
                    messages'[j].contactId = MessageOf(messages, id).contactId =>
                        j <= Len(messages)

\* A cycle passes an occurrence to the gateway only if the occurrence was
\* 'scheduled' in the store when the cycle started.
C23_SendsOnlyScheduledAtStart ==
    \A k \in 1 .. MaxCycles : cycles'[k] # cycles[k] =>
        /\ (cycles[k].pc = "idle" /\ cycles'[k].pc # "idle") => cycles'[k].snap = messages
        /\ (cycles[k].pc # "idle" /\ cycles'[k].pc # "idle") => cycles'[k].snap = cycles[k].snap
        /\ \A id \in MessageIds : gatewayCalls'[id] > gatewayCalls[id] =>
               /\ cycles'[k].snap[cycles'[k].pos].id = id
               /\ cycles'[k].snap[cycles'[k].pos].status = "scheduled"

C24_Status(id, set) ==
    \E i \in 1 .. Len(messages) : messages[i].id = id /\ messages[i].status \in set

C24_Due(id) ==
    \E i \in 1 .. Len(messages) :
        /\ messages[i].id = id
        /\ messages[i].status = "scheduled"
        /\ ParseISO(messages[i].scheduledFor) <= Now

\* C24: under fair firing of the trigger, the gateway's answers and the
\* delivery timers, every 'scheduled' occurrence whose fire instant has passed
\* eventually is 'delivered' or 'failed' (or was cancelled), and no occurrence
\* stays 'sending' or 'sent' forever.  (A behaviour ends where the store's
\* bound stops a cycle.)
C24_EventuallyDeliveredOrFailed ==
    \A id \in MessageIds :
        /\ C24_Due(id) ~>
               (C24_Status(id, {"delivered", "failed", "cancelled"}) \/ StoreLimit)
        /\ C24_Status(id, {"sending", "sent"}) ~>
               (C24_Status(id, {"delivered", "failed"}) \/ StoreLimit)

\* A due occurrence went its whole way: it was sent once by a cycle and is
\* 'delivered', no timer is pending and no cycle is running.
C24_Witness ==
    /\ \E i \in 1 .. Len(messages) :
           /\ messages[i].status = "delivered"
           /\ gatewayCalls[messages[i].id] = 1
           /\ ParseISO(messages[i].createdAt) < ParseISO(messages[i].scheduledFor)
    /\ ~ProgressEnabled
    /\ ~StoreLimit

\* C25: an error raised inside a dispatch cycle is caught by the cron
\* callback: it ends that cycle only, its slot is free again, the other cycles,
\* the store and the timers are as they were; and the trigger goes on, every
\* occurrence that is due and 'scheduled' is still taken up by a cycle.
C25_CaughtStep ==
    schedulerErrors' # schedulerErrors =>
        /\ \E k \in 1 .. MaxCycles :
               /\ cycles'[k].pc = "idle"
               /\ \A j \in 1 .. MaxCycles : j # k => cycles'[j] = cycles[j]
        /\ messages' = messages
        /\ contacts' = contacts
        /\ timers' = timers

C25_ErrorCaughtCyclesGoOn ==
    /\ [][C25_CaughtStep]_vars
    /\ \A id \in MessageIds :
           C24_Due(id) ~> (~C24_Status(id, {"scheduled"}) \/ StoreLimit)

\* An error was caught, and a cycle that started at a later instant has sent
\* an occurrence and awaits the provider.
C25_Witness ==
    /\ schedulerErrors # <<>>
    /\ \E k \in 1 .. MaxCycles :
           /\ cycles[k].pc = "awaiting"
           /\ cycles[k].now > schedulerErrors[1]
           /\ gatewayCalls[cycles[k].snap[cycles[k].pos].id] = 1

\* C26: every occurrence with status 'scheduled' belongs to a contact that is
\* in the store.
C26_ScheduledHasSubject ==
    \A i \in 1 .. Len(messages) :
        messages[i].status = "scheduled" =>
            \E c \in 1 .. Len(contacts) : contacts[c].id = messages[i].contactId

\* A contact was deleted while an occurrence of it was 'scheduled', and an
\* occurrence of a contact that is still in the store is 'scheduled'.
C26_Witness ==
    /\ \E i \in 1 .. Len(messages) :
           /\ messages[i].status = "cancelled"
           /\ ~HasContact(contacts, messages[i].contactId)
    /\ \E j \in 1 .. Len(messages) : messages[j].status = "scheduled"

----------------------------------------------------------------------------
(* Further properties of the occurrence scheduler *)

\* The year of the upcoming recurrence of a stored contact.
C27_Year(contactId) ==
    GetFullYear(GetNextBirthdayDate(FindContact(contacts, contactId).birthday, Now, tz), tz)

\* The contact has an occurrence for the year that is not 'scheduled', and
\* none that is.
C27_OnlyPast(contactId, year) ==
    /\ \E i \in 1 .. Len(messages) :
           /\ messages[i].contactId = contactId
           /\ messages[i].year = year
           /\ messages[i].status \in {"cancelled", "sending", "sent", "delivered", "failed"}
    /\ \A i \in 1 .. Len(messages) :
           ~IsExisting(messages[i], contactId, year)

\* ms is the store's messages and one new 'scheduled' occurrence of the
\* contact for the year.
C27_OneMore(ms, contactId, year) ==
    /\ Len(ms) = Len(messages) + 1
    /\ SubSeq(ms, 1, Len(messages)) = messages
    /\ ms[Len(ms)].contactId = contactId
    /\ ms[Len(ms)].year = year
    /\ ms[Len(ms)].status = "scheduled"

\* ms holds the store's messages unchanged and, after them, a 'scheduled'
\* occurrence of the contact for the year.
C27_Among(ms, contactId, year) ==
    /\ Len(ms) > Len(messages)
    /\ SubSeq(ms, 1, Len(messages)) = messages
    /\ \E i \in (Len(messages) + 1) .. Len(ms) : IsExisting(ms[i], contactId, year)

\* C27: when a stored contact's occurrences for the upcoming recurrence year
\* are all cancelled, sending, sent, delivered or failed, ensureScheduled for
\* the contact, and scheduleAll, create a new 'scheduled' occurrence for the
\* same contact and year.
C27_CancellationUndone ==
    \A c \in 1 .. Len(contacts), rnd \in Rnds :
        C27_OnlyPast(contacts[c].id, C27_Year(contacts[c].id)) =>
            /\ C27_OneMore(ScheduleMessagesForContact(contacts, messages, contacts[c].id,
                                                      Now, tz, rnd).messages,
                           contacts[c].id, C27_Year(contacts[c].id))
            /\ C27_Among(ScheduleAllContacts(contacts, messages, Now, tz, rnd).messages,
                         contacts[c].id, C27_Year(contacts[c].id))

\* A cancellation was undone: after its cancelled occurrence the contact has a
\* 'scheduled' one for the same year, both created at the same instant.
C27_Witness ==
    \E i, j \in 1 .. Len(messages) :
        /\ i < j
        /\ HasContact(contacts, messages[i].contactId)
        /\ messages[i].status = "cancelled"
        /\ messages[j].status = "scheduled"
        /\ messages[j].contactId = messages[i].contactId
        /\ messages[j].year = messages[i].year
        /\ messages[j].scheduledFor = messages[i].scheduledFor

----------------------------------------------------------------------------
(* Further properties of send-now *)

\* An occurrence that send-now created: its fire instant is the instant of
\* its creation (the scheduler's occurrences fire after their creation).
C28_SendNowRecord(m) == m.createdAt = m.scheduledFor

\* The occurrence with this id is one that send-now created.
C28_IsSendNow(id) ==
    \E i \in 1 .. Len(messages) : messages[i].id = id /\ C28_SendNowRecord(messages[i])

\* An occurrence is created by send-now exactly in the step that begins a
\* send-now, and then with status 'sending'.
C28_Created ==
    \A i \in (Len(messages) + 1) .. Len(messages') :
        /\ C28_SendNowRecord(messages'[i]) <=> sendNow' # sendNow
        /\ C28_SendNowRecord(messages'[i]) =>
               (messages'[i].status = "sending" /\ messages'[i].id \in sendNow')

\* A send-now occurrence goes from 'sending' to 'sent' or 'failed', and from
\* 'sent' to 'delivered', and nowhere else.
C28_Path ==
    \A i \in 1 .. Len(messages) :
        C28_SendNowRecord(messages[i]) =>
            \/ messages'[i].status = messages[i].status
            \/ <<messages[i].status, messages'[i].status>>
                   \in { <<"sending", "sent">>, <<"sending", "failed">>,
                         <<"sent", "delivered">> }

\* A step of the send-now handler changes no other occurrence, no contact and
\* no dispatch cycle; it adds its own occurrence when it begins and none when
\* it ends.
C28_HandlerFrame ==
    sendNow' # sendNow =>
        /\ Len(messages') = Len(messages) + (IF sendNow \subseteq sendNow' THEN 1 ELSE 0)
        /\ \A i \in 1 .. Len(messages) :
               messages'[i] # messages[i] => messages[i].id \in (sendNow \ sendNow')
        /\ contacts' = contacts
        /\ cycles' = cycles

\* The delivery timer of a send-now occurrence changes that occurrence only.
C28_TimerFrame ==
    \A id \in MessageIds :
        (timers'[id] < timers[id] /\ C28_IsSendNow(id)) =>
            /\ Len(messages') = Len(messages)
            /\ \A i \in 1 .. Len(messages) :
                   messages'[i] # messages[i] => messages[i].id = id

\* C28: send-now creates a new occurrence with status 'sending', moves it to
\* 'sent' and then 'delivered', or to 'failed', changes no other occurrence
\* and creates no further one.
C28_SendNowTouchesOnlyItsOwn ==
    [][C28_Created /\ C28_Path /\ C28_HandlerFrame /\ C28_TimerFrame]_vars

\* A send-now occurrence was delivered while the same contact's occurrence is
\* still 'scheduled', and the store holds these two only.
C28_Witness ==
    /\ Len(messages) = 2
    /\ \E i, j \in 1 .. Len(messages) :
           /\ C28_SendNowRecord(messages[i])
           /\ messages[i].status = "delivered"
           /\ messages[j].contactId = messages[i].contactId
           /\ messages[j].status = "scheduled"

----------------------------------------------------------------------------
(* Properties of the sessions *)

\* The position of a registered session in the registry.
C29_Position(clients, s) == CHOOSE i \in 1 .. Len(clients) : clients[i].sessionId = s

\* Two sessions that stay registered keep their order, whatever is registered
\* again or unregistered.
C29_OrderKept ==
    \A s, t \in SessionIds :
        (/\ HasSession(activeClients, s) /\ HasSession(activeClients, t)
         /\ HasSession(activeClients', s) /\ HasSession(activeClients', t)) =>
            (C29_Position(activeClients, s) < C29_Position(activeClients, t)
                 <=> C29_Position(activeClients', s) < C29_Position(activeClients', t))

\* A session that becomes registered comes after all that are registered, and
\* no session is registered twice.
C29_NewIsLast ==
    /\ \A s \in SessionIds :
           (~HasSession(activeClients, s) /\ HasSession(activeClients', s)) =>
               C29_Position(activeClients', s) = Len(activeClients')
    /\ \A i, j \in 1 .. Len(activeClients') :
           activeClients'[i].sessionId = activeClients'[j].sessionId => i = j

\* getFirstActiveClient returns none exactly when no session is registered,
\* and else the channel of the registered session that has the first position.
C29_First ==
    /\ GetFirstActiveClient(activeClients') = NoBundle
           <=> \A s \in SessionIds : ~HasSession(activeClients', s)
    /\ \A s \in SessionIds :
           (/\ HasSession(activeClients', s)
            /\ \A t \in SessionIds :
                   HasSession(activeClients', t) =>
                       C29_Position(activeClients', s) <= C29_Position(activeClients', t)) =>
               GetFirstActiveClient(activeClients')
                   = Some(activeClients'[C29_Position(activeClients', s)].bundle)

\* A cycle takes its channel from getFirstActiveClient when it starts and
\* keeps it; it calls the provider when it has a channel and simulates the
\* send when it has none.
C29_CycleChannel ==
    \A k \in 1 .. MaxCycles :
        /\ (cycles[k].pc = "idle" /\ cycles'[k].pc # "idle") =>
               cycles'[k].bundle = GetFirstActiveClient(activeClients)
        /\ (cycles[k].pc # "idle" /\ cycles'[k].pc # "idle") =>
               cycles'[k].bundle = cycles[k].bundle
        /\ cycles'[k].pc = "awaiting" => cycles'[k].bundle # NoBundle
        /\ cycles'[k].pc = "settled" => cycles'[k].bundle = NoBundle

\* C29: getFirstActiveClient returns the channel of the session registered
\* earliest among the registered ones (registering a session again keeps its
\* position), and none exactly when no session is registered; a dispatch cycle
\* uses the channel it got at its start for all its sends.
C29_FirstRegisteredChannel ==
    [][C29_OrderKept /\ C29_NewIsLast /\ C29_First /\ C29_CycleChannel]_vars

\* Session s2 was registered before s1 and once more under the other account,
\* and a cycle at its second send awaits the provider with a channel that is
\* no longer the first one's.
C29_Witness ==
    /\ Len(activeClients) = 2
    /\ activeClients[1] = [sessionId |-> "s2", bundle |-> Bundle("AC2", "IS1")]
    /\ \E k \in 1 .. MaxCycles :
           /\ cycles[k].pc = "awaiting"
           /\ cycles[k].pos = 2
           /\ cycles[k].bundle = Some(Bundle("AC1", "IS1"))
           /\ gatewayCalls[cycles[k].snap[1].id] = 1
           /\ gatewayCalls[cycles[k].snap[2].id] = 1

----------------------------------------------------------------------------
(* Properties of the Notify service resolution *)

C30_SchedulerKeepsFirstId ==
    (ensured.later /\ ensured.key = "scheduler") =>
        /\ ensured.sid = firstResolved["scheduler"]
        /\ ~ensured.created

====
